---- MODULE Spec2Model ----
(***************************************************************************)
(* The configuration store of baram (src/coredb/coredb.py, class CoreDB):  *)
(* the document tree, the typed value accessor, the entity registries and  *)
(* the transactional edit session (the "with" context of CoreDB).          *)
(*                                                                         *)
(* Strings that the code parses, trims, lower-cases or splits are          *)
(* sequences of one-character strings, so that float(), int(), strip(),    *)
(* lower(), split() and join() are computed and not assumed.  Entity names *)
(* are never inspected by the code and are plain TLA+ strings.             *)
(***************************************************************************)
EXTENDS Integers, Sequences, FiniteSets, TLC

VARIABLES
    xmlTree,      \* self._xmlTree: the document
    backupTree,   \* self._backupTree: the deep copy taken by __enter__
    lastError,    \* self._lastError
    inContext,    \* self._inContext
    modified,     \* self._modified
    result,       \* the outcome of the last call: what it returned or raised
    session,      \* observer: the tree at __enter__ and the error values
                  \* returned to the caller since then
    input,        \* the arguments of the call under test (SpecValue, SpecBulk)
    threads,      \* the threads calling CoreDB(): where each one is, _mutex,
                  \* cls._instance and self._initialized (SpecNew)
    storage,      \* self._filePath and the container files on disk (SpecFile)
    nesting,      \* the number of "with" blocks of the store the caller is inside
    reader,       \* a solverInfo file that grows and the file object reading it
    worker,       \* SolverInfoManager, its Worker and the worker thread's event loop
    geometry      \* GeometryManager._syncingMode, the display and the listener

vars == <<xmlTree, backupTree, lastError, inContext, modified, result, session, input,
          threads, storage, nesting, reader, worker, geometry>>

None == "None"

(***************************************************************************)
(* Bounds of the model.                                                    *)
(***************************************************************************)
\* longest string handed to setValue
MaxLen == 3
\* the threads that call CoreDB() concurrently
NumThreads == 3
\* the deepest nesting of with blocks of the store
MaxNesting == 2
\* the most characters a solver appends to the file that is read
MaxFile == 4
\* the regions a Worker collects residuals of
NumRegions == 3
\* the most times the solver appends to the solverInfo file of a region
MaxWrites == 1
\* the actors of the display that can be selected
NumActors == 2
\* CoreDB.MONITOR_MAX_INDEX (coredb.py:60, 100 there), scaled down
MONITOR_MAX_INDEX == 4
\* CoreDB.MATERIAL_MAX_INDEX (coredb.py:61, 1000 there), scaled down
MATERIAL_MAX_INDEX == 3
\* CoreDB.CELL_ZONE_MAX_INDEX (coredb.py:62, 1000 there), scaled down
CELL_ZONE_MAX_INDEX == 3
\* CoreDB.BOUNDARY_CONDITION_MAX_INDEX (coredb.py:63, 10000 there), scaled down
BOUNDARY_CONDITION_MAX_INDEX == 3

(***************************************************************************)
(* Characters and Python's string operations.                              *)
(***************************************************************************)
\* the characters of the strings a caller passes to setValue
Chars == {"1", "-", " ", "N", "A"}

Digits == <<"0", "1", "2", "3", "4", "5", "6", "7", "8", "9">>

IsDigit(c) == \E i \in 1..10 : Digits[i] = c

DigitValue(c) == (CHOOSE i \in 1..10 : Digits[i] = c) - 1

AllStrings == UNION {[1..n -> Chars] : n \in 0..MaxLen}

\* str(index) for a non-negative integer
RECURSIVE Str(_)
Str(n) == IF n < 10 THEN <<Digits[n + 1]>>
          ELSE Str(n \div 10) \o <<Digits[(n % 10) + 1]>>

\* str.lower(), one character
LowerChar(c) == CASE c = "N" -> "n"
                  [] c = "A" -> "a"
                  [] OTHER -> c

\* str.lower()
Lower(s) == [i \in 1..Len(s) |-> LowerChar(s[i])]

RECURSIVE LStrip(_)
LStrip(s) == IF s # <<>> /\ Head(s) = " " THEN LStrip(Tail(s)) ELSE s

RECURSIVE RStrip(_)
RStrip(s) == IF s # <<>> /\ s[Len(s)] = " " THEN RStrip(SubSeq(s, 1, Len(s) - 1)) ELSE s

\* str.strip()
Strip(s) == RStrip(LStrip(s))

\* the index of the first blank of s, or Len(s) + 1
FirstBlank(s) == IF \E i \in 1..Len(s) : s[i] = " "
                 THEN CHOOSE i \in 1..Len(s) : s[i] = " " /\ \A j \in 1..(i - 1) : s[j] # " "
                 ELSE Len(s) + 1

\* str.split(): the maximal blank-free runs, in order
RECURSIVE Split(_)
Split(s) == LET t == LStrip(s)
            IN  IF t = <<>> THEN <<>>
                ELSE LET k == FirstBlank(t)
                     IN  <<SubSeq(t, 1, k - 1)>> \o Split(SubSeq(t, k, Len(t)))

\* ' '.join(tokens)
RECURSIVE Join(_)
Join(tokens) == IF tokens = <<>> THEN <<>>
                ELSE IF Len(tokens) = 1 THEN tokens[1]
                ELSE tokens[1] \o <<" ">> \o Join(Tail(tokens))

(***************************************************************************)
(* Python's int() and float() on a string.  A parsed number is a record    *)
(* [ok, nan, v]: ok is FALSE where Python raises ValueError, nan marks the *)
(* float NaN, v is the value otherwise.                                    *)
(***************************************************************************)
RECURSIVE DigitsValue(_)
DigitsValue(s) == IF s = <<>> THEN 0
                  ELSE 10 * DigitsValue(SubSeq(s, 1, Len(s) - 1)) + DigitValue(s[Len(s)])

AllDigits(s) == s # <<>> /\ \A i \in 1..Len(s) : IsDigit(s[i])

HasSign(s) == s # <<>> /\ Head(s) \in {"-", "+"}

Unsigned(s) == IF HasSign(s) THEN Tail(s) ELSE s

Signed(s, n) == IF HasSign(s) /\ Head(s) = "-" THEN 0 - n ELSE n

NotANumber == [ok |-> FALSE, nan |-> FALSE, v |-> 0]

\* int(value): blanks around, an optional sign, decimal digits
ParseInt(s) == LET t == Strip(s)
                   b == Unsigned(t)
               IN  IF AllDigits(b) THEN [ok |-> TRUE, nan |-> FALSE, v |-> Signed(t, DigitsValue(b))]
                   ELSE NotANumber

\* float(value): blanks around, an optional sign, then decimal digits or, in any
\* letter case, "nan"
ParseFloat(s) == LET t == Strip(s)
                     b == Unsigned(t)
                 IN  IF AllDigits(b) THEN [ok |-> TRUE, nan |-> FALSE, v |-> Signed(t, DigitsValue(b))]
                     ELSE IF Lower(b) = <<"n", "a", "n">> THEN [ok |-> TRUE, nan |-> TRUE, v |-> 0]
                     ELSE NotANumber

\* decimal < bound and decimal > bound on Python floats: both are False for NaN
Less(d, bound) == ~d.nan /\ d.v < bound

Greater(d, bound) == ~d.nan /\ d.v > bound

(***************************************************************************)
(* The Schema Catalog (configurations/baram.cfg.xsd) and the document      *)
(* template (configurations/baram.cfg.xml): one leaf of each content type  *)
(* that setValue tells apart, one structural element and one path that     *)
(* matches nothing.  Bounds are inclusive.                                 *)
(***************************************************************************)
LeafPaths == {"pressure", "maxIterationsPerTimeStep", "maxCourantNumber",
              "direction", "flowType", "name"}

Paths == LeafPaths \cup {"general", "missing"}

\* schema.type of the element a path resolves to: kind is the branch of setValue
\* that handles it, integer says whether the primitive type's name holds 'integer'
SchemaType(p) ==
    CASE p = "pressure" ->
            [kind |-> "inputNumberType", integer |-> FALSE,
             hasMin |-> TRUE, min |-> 0, hasMax |-> TRUE, max |-> 20, enumeration |-> {}]
      [] p = "maxIterationsPerTimeStep" ->
            [kind |-> "decimal", integer |-> TRUE,
             hasMin |-> TRUE, min |-> 1, hasMax |-> TRUE, max |-> 20, enumeration |-> {}]
      [] p = "maxCourantNumber" ->
            [kind |-> "decimal", integer |-> FALSE,
             hasMin |-> TRUE, min |-> 0, hasMax |-> FALSE, max |-> 0, enumeration |-> {}]
      [] p = "direction" ->
            [kind |-> "inputNumberListType", integer |-> FALSE,
             hasMin |-> TRUE, min |-> 0, hasMax |-> TRUE, max |-> 20, enumeration |-> {}]
      [] p = "flowType" ->
            [kind |-> "enumeration", integer |-> FALSE,
             hasMin |-> FALSE, min |-> 0, hasMax |-> FALSE, max |-> 0,
             enumeration |-> {<<"N">>, <<"A">>}]
      [] p = "name" ->
            [kind |-> "string", integer |-> FALSE,
             hasMin |-> FALSE, min |-> 0, hasMax |-> FALSE, max |-> 0, enumeration |-> {}]
      [] OTHER ->
            [kind |-> "structural", integer |-> FALSE,
             hasMin |-> FALSE, min |-> 0, hasMax |-> FALSE, max |-> 0, enumeration |-> {}]

\* the text of each leaf in the bundled template
TemplateText(p) ==
    CASE p = "pressure" -> <<"0">>
      [] p = "maxIterationsPerTimeStep" -> <<"1">>
      [] p = "maxCourantNumber" -> <<"1">>
      [] p = "direction" -> <<"0", " ", "0">>
      [] p = "flowType" -> <<"N">>
      [] OTHER -> <<>>

\* the lexical form of an XSD number: an optional sign and decimal digits
IsXsdNumber(s) == AllDigits(Unsigned(s))

InBounds(t, n) == (t.hasMin => n >= t.min) /\ (t.hasMax => n <= t.max)

\* whether one leaf text is valid for its schema type
LeafValid(p, s) ==
    LET t == SchemaType(p)
    IN  CASE t.kind \in {"inputNumberType", "decimal"} ->
                IsXsdNumber(s) /\ InBounds(t, ParseInt(s).v)
          [] t.kind = "inputNumberListType" ->
                \A i \in 1..Len(Split(s)) :
                    IsXsdNumber(Split(s)[i]) /\ InBounds(t, ParseInt(Split(s)[i]).v)
          [] t.kind = "enumeration" -> s \in t.enumeration
          [] OTHER -> TRUE

\* An element is [tag, attrib, hasText, text, children]: attrib is the sequence
\* of <<name, value>> in insertion order, hasText is FALSE where element.text is
\* None, children are elements in document order.  Tags and attribute names are
\* one-token sequences, so that a key of a bulk mapping is its prefix character,
\* if any, followed by the name.
EmptyElement(tag) == [tag |-> tag, attrib |-> <<>>, hasText |-> FALSE, text |-> "",
                      children |-> <<>>]

\* <gravity disabled="false"/> of the bundled template
TemplateGravity == [EmptyElement(<<"gravity">>) EXCEPT !.attrib = <<<<<<"disabled">>, "false">>>>]

\* the declaration of <gravity>: the boolean attribute 'disabled' is required, the
\* element has no text of its own, and its children are leaves <x> and <y>, each
\* at most once, in that order
GravityValid(e) ==
    /\ Len(e.attrib) = 1 /\ e.attrib[1][1] = <<"disabled">>
    /\ e.attrib[1][2] \in {"true", "false"}
    /\ ~e.hasText
    /\ Len(e.children) <= 2
    /\ \A i \in 1..Len(e.children) :
           /\ e.children[i].tag \in {<<"x">>, <<"y">>}
           /\ e.children[i].attrib = <<>> /\ e.children[i].children = <<>>
    /\ Len(e.children) = 2 => (e.children[1].tag = <<"x">> /\ e.children[2].tag = <<"y">>)

\* self._xmlSchema.assertValid(self._xmlTree) passes
SchemaValid(tree) ==
    /\ \A p \in LeafPaths : LeafValid(p, tree.text[p])
    /\ GravityValid(tree.gravity)

\* the number of elements findall(xpath) returns
Matches(tree, p) == IF p = "missing" THEN 0 ELSE 1

(***************************************************************************)
(* A document is a record: kind is the Python type of the object the store *)
(* holds ("ElementTree" after etree.parse, "Element" after                 *)
(* etree.fromstring, "NoneType" for None, "bytes" for a serialized         *)
(* document), materials                                                    *)
(* and regions are the children of <materials> and <regions> in document   *)
(* order, text maps each leaf of the template to its text, gravity is the  *)
(* element <gravity>, the subtree that the attribute accessors and the     *)
(* bulk codec are applied to.                                              *)
(***************************************************************************)
\* the kinds of monitor, and a document without monitors
MonitorKinds == {"force", "point", "surface", "volume"}

NoMonitors == [kind \in MonitorKinds |-> <<>>]

NoneTree == [kind |-> "NoneType", materials |-> <<>>, regions |-> <<>>,
             text |-> [p \in LeafPaths |-> <<>>], gravity |-> EmptyElement(<<"gravity">>),
             monitors |-> NoMonitors]

IsNone(tree) == tree.kind = "NoneType"

(***************************************************************************)
(* setValue                                                                *)
(***************************************************************************)
Returned(e) == [stored |-> FALSE, text |-> <<>>, ret |-> e, exc |-> None]

Raised(e) == [stored |-> FALSE, text |-> <<>>, ret |-> None, exc |-> e]

Stored(s) == [stored |-> TRUE, text |-> s, ret |-> None, exc |-> None]

\* the bounds checks shared by the two numeric branches
CheckRange(t, d, v) ==
    IF t.hasMin /\ Less(d, t.min) THEN Returned("OUT_OF_RANGE")
    ELSE IF t.hasMax /\ Greater(d, t.max) THEN Returned("OUT_OF_RANGE")
    ELSE Stored(Strip(Lower(v)))

\* schema.type.local_name == 'inputNumberType', or a restriction of it
NumberBranch(t, v) ==
    LET d == ParseFloat(v)
    IN  IF ~d.ok THEN Returned("FLOAT_ONLY") ELSE CheckRange(t, d, v)

\* the list branch storing the tokens without trying float() on them
ListBranchUnchecked(t, v) == Stored(Join(Split(v)))

\* schema.type.local_name == 'inputNumberListType'
ListBranch(t, v) ==
    LET numbers == Split(v)
    IN  IF \E i \in 1..Len(numbers) : ~ParseFloat(numbers[i]).ok
        THEN Returned("FLOAT_ONLY")
        ELSE Stored(Join(numbers))

\* schema.type.is_decimal()
DecimalBranch(t, v) ==
    IF t.integer
    THEN LET d == ParseInt(v)
         IN  IF ~d.ok THEN Returned("INTEGER_ONLY") ELSE CheckRange(t, d, v)
    ELSE LET d == ParseFloat(v)
         IN  IF ~d.ok THEN Returned("FLOAT_ONLY") ELSE CheckRange(t, d, v)

\* the string branch
StringBranch(t, v) ==
    IF t.kind = "enumeration" /\ v \notin t.enumeration
    THEN Raised("ValueError")
    ELSE Stored(Strip(v))

\* what setValue(xpath, value) decides before it touches the tree;
\* self._xmlTree.getelementpath exists on an ElementTree only
Validate(tree, p, v) ==
    LET t == SchemaType(p)
    IN  IF Matches(tree, p) # 1 THEN Raised("LookupError")
        ELSE IF tree.kind # "ElementTree" THEN Raised("AttributeError")
        ELSE IF t.kind = "structural" THEN Raised("LookupError")
        ELSE IF t.kind = "inputNumberType" THEN NumberBranch(t, v)
        ELSE IF t.kind = "inputNumberListType" THEN ListBranch(t, v)
        ELSE IF t.kind = "decimal" THEN DecimalBranch(t, v)
        ELSE StringBranch(t, v)

\* the error values setValue returns
ContentErrors == {"OUT_OF_RANGE", "INTEGER_ONLY", "FLOAT_ONLY"}

\* the error values of class Error
Errors == ContentErrors \cup {"REFERENCED", "EMPTY"}

\* The observer of a session.  snapshot is the tree at __enter__, errors the error
\* values returned to the caller since then, edited whether a call changed the
\* tree, fixed whether a call succeeded after the last error value setValue
\* returned, final and eType the tree and the exception type that __exit__ met.
\* It is kept until the first call after the session.
NoSession == [snapshot |-> NoneTree, final |-> NoneTree, errors |-> {},
              edited |-> FALSE, fixed |-> FALSE, eType |-> None]

Observe(ret, exc, changed) ==
    IF ~inContext THEN NoSession
    ELSE [session EXCEPT
            !.errors = @ \cup ({ret} \cap Errors),
            !.edited = @ \/ changed,
            !.fixed = IF ret \in ContentErrors THEN FALSE
                      ELSE IF ret = None /\ exc = None
                           THEN session.errors \cap ContentErrors # {}
                           ELSE @]

\* what a call left for its caller: arg is the path or the scope it was given
Outcome(op, arg, ret, exc) == [op |-> op, arg |-> arg, ret |-> ret, exc |-> exc, index |-> 0]

\* setValue resetting _lastError when it succeeds
SetValueClearingLastError(p, v) ==
    LET o == Validate(xmlTree, p, v)
        tree == [xmlTree EXCEPT !.text[p] = o.text]
    IN  /\ ~IsNone(xmlTree)
        /\ IF o.stored
           THEN /\ xmlTree' = tree
                /\ modified' = TRUE
                /\ lastError' = None
                /\ result' = Outcome("setValue", p, None,
                                     IF SchemaValid(tree) THEN None ELSE "DocumentInvalid")
           ELSE /\ xmlTree' = xmlTree
                /\ modified' = modified
                /\ lastError' = IF o.ret # None THEN o.ret ELSE lastError
                /\ result' = Outcome("setValue", p, o.ret, o.exc)
        /\ session' = Observe(result'.ret, result'.exc, o.stored)
        /\ UNCHANGED <<backupTree, inContext>>

SetValue(p, v) ==
    LET o == Validate(xmlTree, p, v)
        tree == [xmlTree EXCEPT !.text[p] = o.text]
    IN  /\ ~IsNone(xmlTree)
        /\ IF o.stored
           THEN /\ xmlTree' = tree
                /\ modified' = TRUE
                /\ lastError' = lastError
                /\ result' = Outcome("setValue", p, None,
                                     IF SchemaValid(tree) THEN None ELSE "DocumentInvalid")
           ELSE /\ xmlTree' = xmlTree
                /\ modified' = modified
                /\ lastError' = IF o.ret # None THEN o.ret ELSE lastError
                /\ result' = Outcome("setValue", p, o.ret, o.exc)
        /\ session' = Observe(result'.ret, result'.exc, o.stored)
        /\ UNCHANGED <<backupTree, inContext>>

\* getValue(xpath): the text of the leaf; getelementpath exists on an ElementTree
\* only
getValue(tree, p) ==
    IF Matches(tree, p) # 1 THEN [ret |-> <<>>, exc |-> "LookupError"]
    ELSE IF tree.kind # "ElementTree" THEN [ret |-> <<>>, exc |-> "AttributeError"]
    ELSE IF SchemaType(p).kind = "structural" THEN [ret |-> <<>>, exc |-> "LookupError"]
    ELSE [ret |-> tree.text[p], exc |-> None]

\* result.ret is the text that getValue returns
GetValue(p) ==
    /\ ~IsNone(xmlTree)
    /\ result' = [op |-> "getValue", arg |-> p, ret |-> getValue(xmlTree, p).ret,
                  exc |-> getValue(xmlTree, p).exc, index |-> 0]
    /\ UNCHANGED <<xmlTree, backupTree, lastError, inContext, modified, session, input,
                   threads, storage, nesting,
                   reader, worker, geometry>>

(***************************************************************************)
(* The bulk codec.  A Python value handed to setBulk or returned by        *)
(* getBulk is a record [t, s, items]: t is its type ("str", "int",         *)
(* "object", "dict" or "list"), s is str(value) of a scalar, items are the *)
(* <<key, value>> pairs of a dict in insertion order or the members of a   *)
(* list.  A key is its prefix character, if any, followed by the name.     *)
(***************************************************************************)
Scalar(t, text) == [t |-> t, s |-> text, items |-> <<>>]

Dict(items) == [t |-> "dict", s |-> "", items |-> items]

List(items) == [t |-> "list", s |-> "", items |-> items]

\* str(v): the text of a scalar, the display form of a container
StrOf(v) == CASE v.t = "dict" -> "{...}"
              [] v.t = "list" -> "[...]"
              [] OTHER -> v.s

\* what a rebuild left: the element as far as it was built, and the exception
Built(element, exc) == [element |-> element, exc |-> exc]

\* etree.SubElement(element, tag) with the content it is given afterwards
SubElement(element, child) == [element EXCEPT !.children = Append(@, child)]

TextElement(tag, text) == [EmptyElement(tag) EXCEPT !.hasText = TRUE, !.text = text]

RECURSIVE SetBulkInternalFrom(_, _, _)
RECURSIVE SetBulkDicts(_, _, _, _)
RECURSIVE SetBulkTexts(_, _, _, _)

\* the branch "for item in v" of a list whose first member is a dict
SetBulkDicts(element, k, members, i) ==
    IF i > Len(members) THEN Built(element, None)
    ELSE IF members[i].t # "dict" THEN Built(element, "ValueError")
    ELSE LET sub == SetBulkInternalFrom(EmptyElement(k), members[i].items, 1)
             next == SubElement(element, sub.element)
         IN  IF sub.exc # None THEN Built(next, sub.exc)
             ELSE SetBulkDicts(next, k, members, i + 1)

\* the branch "for item in v" of a list whose first member is no dict
SetBulkTexts(element, k, members, i) ==
    IF i > Len(members) THEN Built(element, None)
    ELSE SetBulkTexts(SubElement(element, TextElement(k, StrOf(members[i]))), k, members, i + 1)

\* one iteration of "for k, v in data.items()"
SetBulkItem(element, k, v) ==
    IF Head(k) = "@"
    THEN IF v.t = "str"
         THEN Built([element EXCEPT !.attrib = Append(@, <<Tail(k), v.s>>)], None)
         ELSE Built(element, "TypeError")
    ELSE IF Head(k) = "$"
    THEN Built([element EXCEPT !.hasText = TRUE, !.text = StrOf(v)], None)
    ELSE IF v.t = "dict"
    THEN LET sub == SetBulkInternalFrom(EmptyElement(k), v.items, 1)
         IN  Built(SubElement(element, sub.element), sub.exc)
    ELSE IF v.t = "list"
    THEN IF Len(v.items) = 0 THEN Built(SubElement(element, EmptyElement(k)), None)
         ELSE IF v.items[1].t = "dict" THEN SetBulkDicts(element, k, v.items, 1)
         ELSE SetBulkTexts(element, k, v.items, 1)
    ELSE Built(SubElement(element, TextElement(k, StrOf(v))), None)

\* _setBulkInternal(element, data) from the i-th item of data on
SetBulkInternalFrom(element, items, i) ==
    IF i > Len(items) THEN Built(element, None)
    ELSE LET step == SetBulkItem(element, items[i][1], items[i][2])
         IN  IF step.exc # None THEN step
             ELSE SetBulkInternalFrom(step.element, items, i + 1)

\* _setBulkInternal(element, data)
SetBulkInternal(element, data) == SetBulkInternalFrom(element, data.items, 1)

\* data[tag] = result whether or not the tag is already a key
AddResultOverwriting(items, tag, res) ==
    IF \E j \in 1..Len(items) : items[j][1] = tag
    THEN LET j == CHOOSE j \in 1..Len(items) : items[j][1] = tag
         IN  [items EXCEPT ![j] = <<tag, res>>]
    ELSE Append(items, <<tag, res>>)

\* data[tag] = result, or the list of results when the tag is already a key
AddResult(items, tag, res) ==
    IF \E j \in 1..Len(items) : items[j][1] = tag
    THEN LET j == CHOOSE j \in 1..Len(items) : items[j][1] = tag
             old == items[j][2]
         IN  [items EXCEPT ![j] = <<tag, IF old.t = "list" THEN List(Append(old.items, res))
                                          ELSE List(<<old, res>>)>>]
    ELSE Append(items, <<tag, res>>)

RECURSIVE GetBulkInternal(_)
RECURSIVE GetBulkChildren(_, _, _)

\* "for child in element" from the i-th child on
GetBulkChildren(items, children, i) ==
    IF i > Len(children) THEN items
    ELSE GetBulkChildren(AddResult(items, children[i].tag, GetBulkInternal(children[i])),
                         children, i + 1)

\* _getBulkInternal(element)
GetBulkInternal(element) ==
    LET attributes == [i \in 1..Len(element.attrib) |->
                          <<<<"@">> \o element.attrib[i][1], Scalar("str", element.attrib[i][2])>>]
        data == GetBulkChildren(attributes, element.children, 1)
    IN  IF element.hasText
        THEN IF data # <<>> THEN Dict(Append(data, <<<<"$">>, Scalar("str", element.text)>>))
             ELSE Scalar("str", element.text)
        ELSE Dict(data)

\* getBulk(xpath)
getBulk(tree, p) ==
    IF Matches(tree, p) # 1 THEN [ret |-> Dict(<<>>), exc |-> "LookupError"]
    ELSE [ret |-> GetBulkInternal(tree.gravity), exc |-> None]

(***************************************************************************)
(* Entity registries.  A material is [mid, name], a region is              *)
(* [name, material, cellZones, boundaryConditions], a cell zone is         *)
(* [czid, name], a boundary condition is [bcid, name, geometricalType].    *)
(* Ids and the material reference are texts, as in the document.           *)
(***************************************************************************)
\* the keys of self._materialDB (materials.csv)
MaterialDB == {"air", "water", "steel"}

\* the root of configurations/cell_zone.xml
CellZoneTemplate == [czid |-> <<"1">>, name |-> "All"]

\* the root of configurations/boundary_condition.xml
BoundaryConditionTemplate == [bcid |-> <<"0">>, name |-> "", geometricalType |-> "patch"]

\* an id allocator that numbers by the count of entities in the scope
FreeIndexesByCount(idList, maxIndex) ==
    {i \in 1..(maxIndex - 1) : i = Cardinality(idList) + 1}

\* for index in range(1, maxIndex): if str(index) not in idList: break
FreeIndexes(idList, maxIndex) == {i \in 1..(maxIndex - 1) : Str(i) \notin idList}

Smallest(S) == CHOOSE i \in S : \A j \in S : i <= j

MaterialIds(tree) == {tree.materials[i].mid : i \in 1..Len(tree.materials)}

MaterialNames(tree) == {tree.materials[i].name : i \in 1..Len(tree.materials)}

RegionNames(tree) == {tree.regions[i].name : i \in 1..Len(tree.regions)}

\* the position of the region a './/region[name="rname"]' lookup finds first, 0 if none
RegionIndex(tree, rname) ==
    IF rname \in RegionNames(tree)
    THEN Smallest({i \in 1..Len(tree.regions) : tree.regions[i].name = rname})
    ELSE 0

\* getMaterials(): (int(mid), name) in document order
getMaterials(tree) ==
    [i \in 1..Len(tree.materials) |->
        <<ParseInt(tree.materials[i].mid).v, tree.materials[i].name>>]

\* getRegions()
getRegions(tree) == [i \in 1..Len(tree.regions) |-> tree.regions[i].name]

\* addRegion appends the region to the element './/regions'
RegionsParent == "regions"

\* the texts './/x:<parent>/x:region/x:material/text()' selects
RegionMaterialTexts(tree, parent) ==
    IF parent = RegionsParent
    THEN {tree.regions[i].material : i \in 1..Len(tree.regions)} \ {<<>>}
    ELSE {}

\* the result of a registry call: the tree it leaves and what it returned or raised
Done(tree, ret, exc, index) == [tree |-> tree, ret |-> ret, exc |-> exc, index |-> index]

\* the closing self._xmlSchema.assertValid(self._xmlTree) of an add
Validated(tree, index) ==
    IF SchemaValid(tree) THEN Done(tree, None, None, index)
    ELSE Done(tree, None, "DocumentInvalid", 0)

\* setBulk without the test of self._inContext
setBulkAnywhere(tree, p, value) ==
    LET built == SetBulkInternal(EmptyElement(tree.gravity.tag), value)
        rebuilt == [tree EXCEPT !.gravity = built.element]
    IN  IF value.t # "dict" THEN Done(tree, None, "ValueError", 0)
        ELSE IF Matches(tree, p) # 1 THEN Done(tree, None, "LookupError", 0)
        ELSE IF built.exc # None THEN Done(rebuilt, None, built.exc, 0)
        ELSE Validated(rebuilt, 0)

\* setBulk(xpath, value): elements[0].clear(), the rebuild, the re-validation
setBulk(tree, p, value) ==
    LET built == SetBulkInternal(EmptyElement(tree.gravity.tag), value)
        rebuilt == [tree EXCEPT !.gravity = built.element]
    IN  IF ~inContext THEN Done(tree, None, "RuntimeError", 0)
        ELSE IF value.t # "dict" THEN Done(tree, None, "ValueError", 0)
        ELSE IF Matches(tree, p) # 1 THEN Done(tree, None, "LookupError", 0)
        ELSE IF built.exc # None THEN Done(rebuilt, None, built.exc, 0)
        ELSE Validated(rebuilt, 0)

addMaterial(tree, name) ==
    LET free == FreeIndexes(MaterialIds(tree), MATERIAL_MAX_INDEX)
        index == Smallest(free)
    IN  IF name \notin MaterialDB THEN Done(tree, None, "LookupError", 0)
        ELSE IF name \in MaterialNames(tree) THEN Done(tree, None, "FileExistsError", 0)
        ELSE IF free = {} THEN Done(tree, None, "OverflowError", 0)
        ELSE Validated([tree EXCEPT !.materials = Append(@, [mid |-> Str(index), name |-> name])],
                       index)

\* removeMaterial without the check for the last material of the list
removeMaterialOfLast(tree, name) ==
    LET at == CHOOSE i \in 1..Len(tree.materials) : tree.materials[i].name = name
        mid == tree.materials[at].mid
        idList == RegionMaterialTexts(tree, "cellZones")
        rest == [i \in 1..(Len(tree.materials) - 1) |->
                    IF i < at THEN tree.materials[i] ELSE tree.materials[i + 1]]
    IN  IF name \notin MaterialNames(tree) THEN Done(tree, None, "LookupError", 0)
        ELSE IF mid \in idList THEN Done(tree, "REFERENCED", None, 0)
        ELSE Done([tree EXCEPT !.materials = rest], None, None, 0)

removeMaterial(tree, name) ==
    LET at == CHOOSE i \in 1..Len(tree.materials) : tree.materials[i].name = name
        mid == tree.materials[at].mid
        idList == RegionMaterialTexts(tree, "cellZones")
        rest == [i \in 1..(Len(tree.materials) - 1) |->
                    IF i < at THEN tree.materials[i] ELSE tree.materials[i + 1]]
    IN  IF name \notin MaterialNames(tree) THEN Done(tree, None, "LookupError", 0)
        ELSE IF mid \in idList THEN Done(tree, "REFERENCED", None, 0)
        ELSE IF Len(tree.materials) = 1 THEN Done(tree, "EMPTY", None, 0)
        ELSE Done([tree EXCEPT !.materials = rest], None, None, 0)

\* addRegion without the lookup of a region of that name
addRegionUnchecked(tree, rname) ==
    LET materials == getMaterials(tree)
        partial == [name |-> rname, material |-> <<>>,
                    cellZones |-> <<>>, boundaryConditions |-> <<>>]
        region == [name |-> rname, material |-> Str(materials[1][1]),
                   cellZones |-> <<CellZoneTemplate>>, boundaryConditions |-> <<>>]
    IN  IF Len(materials) = 0
        THEN Done([tree EXCEPT !.regions = Append(@, partial)], None, "AssertionError", 0)
        ELSE Validated([tree EXCEPT !.regions = Append(@, region)], 0)

addRegion(tree, rname) ==
    LET materials == getMaterials(tree)
        partial == [name |-> rname, material |-> <<>>,
                    cellZones |-> <<>>, boundaryConditions |-> <<>>]
        region == [name |-> rname, material |-> Str(materials[1][1]),
                   cellZones |-> <<CellZoneTemplate>>, boundaryConditions |-> <<>>]
    IN  IF rname \in RegionNames(tree) THEN Done(tree, None, "FileExistsError", 0)
        ELSE IF Len(materials) = 0
             THEN Done([tree EXCEPT !.regions = Append(@, partial)], None, "AssertionError", 0)
        ELSE Validated([tree EXCEPT !.regions = Append(@, region)], 0)

addCellZone(tree, rname, zname) ==
    LET r == RegionIndex(tree, rname)
        zones == tree.regions[r].cellZones
        free == FreeIndexes({zones[i].czid : i \in 1..Len(zones)}, CELL_ZONE_MAX_INDEX)
        index == Smallest(free)
        zone == [CellZoneTemplate EXCEPT !.name = zname, !.czid = Str(index)]
    IN  IF r = 0 THEN Done(tree, None, "AttributeError", 0)
        ELSE IF zname \in {zones[i].name : i \in 1..Len(zones)}
             THEN Done(tree, None, "FileExistsError", 0)
        ELSE IF free = {} THEN Done(tree, None, "OverflowError", 0)
        ELSE Validated([tree EXCEPT !.regions[r].cellZones = Append(@, zone)], index)

addBoundaryCondition(tree, rname, bname, geometricalType) ==
    LET r == RegionIndex(tree, rname)
        bcs == tree.regions[r].boundaryConditions
        free == FreeIndexes({bcs[i].bcid : i \in 1..Len(bcs)}, BOUNDARY_CONDITION_MAX_INDEX)
        index == Smallest(free)
        named == [BoundaryConditionTemplate EXCEPT !.name = bname, !.bcid = Str(index)]
        bc == IF geometricalType # None
              THEN [named EXCEPT !.geometricalType = geometricalType]
              ELSE named
    IN  IF r = 0 THEN Done(tree, None, "AttributeError", 0)
        ELSE IF bname \in {bcs[i].name : i \in 1..Len(bcs)}
             THEN Done(tree, None, "FileExistsError", 0)
        ELSE IF free = {} THEN Done(tree, None, "OverflowError", 0)
        ELSE Validated([tree EXCEPT !.regions[r].boundaryConditions = Append(@, bc)], index)

\* a registry call as a step of the store: none of them touches _lastError or _modified
Registry(op, arg, done) ==
    /\ ~IsNone(xmlTree)
    /\ xmlTree' = done.tree
    /\ result' = [op |-> op, arg |-> arg, ret |-> done.ret, exc |-> done.exc,
                  index |-> done.index]
    /\ session' = Observe(done.ret, done.exc, done.tree # xmlTree)
    /\ UNCHANGED <<backupTree, lastError, inContext, modified, input, threads, storage, nesting, reader, worker, geometry>>

AddMaterial(name) == Registry("addMaterial", name, addMaterial(xmlTree, name))

RemoveMaterial(name) == Registry("removeMaterial", name, removeMaterial(xmlTree, name))

AddRegion(rname) == Registry("addRegion", rname, addRegion(xmlTree, rname))

AddCellZone(rname, zname) == Registry("addCellZone", rname, addCellZone(xmlTree, rname, zname))

AddBoundaryCondition(rname, bname, geometricalType) ==
    Registry("addBoundaryCondition", rname,
             addBoundaryCondition(xmlTree, rname, bname, geometricalType))

\* FORCE_/POINT_/SURFACE_/VOLUME_MONITOR_DEFAULT_NAME
MonitorPrefix(kind) ==
    IF kind = "force" THEN <<"f", "o", "r", "c", "e", "-", "m", "o", "n", "-">>
    ELSE IF kind = "point" THEN <<"p", "o", "i", "n", "t", "-", "m", "o", "n", "-">>
    ELSE IF kind = "surface"
    THEN <<"s", "u", "r", "f", "a", "c", "e", "-", "m", "o", "n", "-">>
    ELSE <<"v", "o", "l", "u", "m", "e", "-", "m", "o", "n", "-">>

\* monitorName = self.<KIND>_MONITOR_DEFAULT_NAME+str(index)
MonitorName(kind, index) == MonitorPrefix(kind) \o Str(index)

\* get<Kind>Monitors(): the names of the monitors of the kind in document order
getMonitors(tree, kind) == tree.monitors[kind]

\* an allocator that numbers the new monitor by the count of monitors of the kind
FreeMonitorIndexesByCount(names, kind) ==
    {i \in 1..(MONITOR_MAX_INDEX - 1) : i = Len(names) + 1}

\* for index in range(1, self.MONITOR_MAX_INDEX): if monitorName not in names: break
FreeMonitorIndexes(names, kind) ==
    {i \in 1..(MONITOR_MAX_INDEX - 1) :
        \A k \in 1..Len(names) : names[k] # MonitorName(kind, i)}

\* add<Kind>Monitor(): the template of the kind, named, appended and the document
\* validated; the name is returned
addMonitor(tree, kind) ==
    LET names == getMonitors(tree, kind)
        free == FreeMonitorIndexes(names, kind)
        monitorName == MonitorName(kind, Smallest(free))
        appended == [tree EXCEPT !.monitors[kind] = Append(@, monitorName)]
    IN  IF free = {} THEN [tree |-> tree, ret |-> <<>>, exc |-> "OverflowError"]
        ELSE IF ~SchemaValid(appended)
        THEN [tree |-> appended, ret |-> <<>>, exc |-> "DocumentInvalid"]
        ELSE [tree |-> appended, ret |-> monitorName, exc |-> None]

\* the sequence without its element at position at
Without(seq, at) == [k \in 1..(Len(seq) - 1) |-> IF k < at THEN seq[k] ELSE seq[k + 1]]

\* remove<Kind>Monitor(name): the first monitor of the kind with the name
removeMonitor(tree, kind, name) ==
    LET names == getMonitors(tree, kind)
        found == {k \in 1..Len(names) : names[k] = name}
    IN  IF found = {} THEN [tree |-> tree, ret |-> <<>>, exc |-> "LookupError"]
        ELSE [tree |-> [tree EXCEPT !.monitors[kind] = Without(names, Smallest(found))],
              ret |-> <<>>, exc |-> None]

\* a monitor call as a step of the store; result.ret is the name that an add returns
Monitor(op, arg, done) ==
    /\ ~IsNone(xmlTree)
    /\ xmlTree' = done.tree
    /\ result' = [op |-> op, arg |-> arg, ret |-> done.ret, exc |-> done.exc, index |-> 0]
    /\ session' = IF inContext THEN [session EXCEPT !.edited = @ \/ done.tree # xmlTree]
                  ELSE NoSession
    /\ UNCHANGED <<backupTree, lastError, inContext, modified, input, threads, storage,
                   nesting,
                   reader, worker, geometry>>

AddMonitor(kind) == Monitor("addMonitor", <<kind, <<>>>>, addMonitor(xmlTree, kind))

RemoveMonitor(kind, name) ==
    Monitor("removeMonitor", <<kind, name>>, removeMonitor(xmlTree, kind, name))

\* the names of the attributes of an element: elements[0].keys()
AttributeNames(e) == {e.attrib[i][1] : i \in 1..Len(e.attrib)}

\* getAttribute(xpath, name)
getAttribute(tree, p, name) ==
    IF Matches(tree, p) # 1 THEN Done(tree, None, "LookupError", 0)
    ELSE IF name \notin AttributeNames(tree.gravity) THEN Done(tree, None, "LookupError", 0)
    ELSE LET i == CHOOSE i \in 1..Len(tree.gravity.attrib) : tree.gravity.attrib[i][1] = name
         IN  Done(tree, tree.gravity.attrib[i][2], None, 0)

\* setAttribute(xpath, name, value): the attribute is set and nothing is re-validated
setAttribute(tree, p, name, value) ==
    IF Matches(tree, p) # 1 THEN Done(tree, None, "LookupError", 0)
    ELSE IF name \notin AttributeNames(tree.gravity) THEN Done(tree, None, "LookupError", 0)
    ELSE LET i == CHOOSE i \in 1..Len(tree.gravity.attrib) : tree.gravity.attrib[i][1] = name
         IN  Done([tree EXCEPT !.gravity.attrib[i] = <<name, value>>], None, None, 0)

\* result.ret is the value of the attribute
GetAttribute(p, name) ==
    /\ ~IsNone(xmlTree)
    /\ result' = [op |-> "getAttribute", arg |-> p, ret |-> getAttribute(xmlTree, p, name).ret,
                  exc |-> getAttribute(xmlTree, p, name).exc, index |-> 0]
    /\ UNCHANGED <<xmlTree, backupTree, lastError, inContext, modified, session, input,
                   threads, storage, nesting,
                   reader, worker, geometry>>

SetAttribute(p, name, value) ==
    Registry("setAttribute", p, setAttribute(xmlTree, p, name, value))

SetBulk(p, value) == Registry("setBulk", p, setBulk(xmlTree, p, value))

\* result.ret is the mapping (or the bare string) that getBulk returns
GetBulk(p) ==
    /\ ~IsNone(xmlTree)
    /\ result' = [op |-> "getBulk", arg |-> p, ret |-> getBulk(xmlTree, p).ret,
                  exc |-> getBulk(xmlTree, p).exc, index |-> 0]
    /\ UNCHANGED <<xmlTree, backupTree, lastError, inContext, modified, session, input,
                   threads, storage, nesting,
                   reader, worker, geometry>>

(***************************************************************************)
(* The transactional edit session: "with CoreDB() as db:".                 *)
(***************************************************************************)
\* the exception type handed to __exit__: none, Cancel, or any other exception
ExceptionTypes == {None, "Cancel", "Exception"}

\* __enter__ without self._lastError = None
EnterKeepingLastError ==
    /\ backupTree' = xmlTree
    /\ lastError' = lastError
    /\ inContext' = TRUE
    /\ result' = Outcome("enter", None, None, None)
    /\ session' = [NoSession EXCEPT !.snapshot = xmlTree]
    /\ nesting' = nesting + 1
    /\ UNCHANGED <<xmlTree, modified, input, threads, storage, reader, worker, geometry>>

\* __enter__
Enter ==
    /\ backupTree' = xmlTree
    /\ lastError' = None
    /\ inContext' = TRUE
    /\ result' = Outcome("enter", None, None, None)
    /\ session' = [NoSession EXCEPT !.snapshot = xmlTree]
    /\ nesting' = nesting + 1
    /\ UNCHANGED <<xmlTree, modified, input, threads, storage, reader, worker, geometry>>

\* __exit__ restoring the backup only when an exception unwinds the session
ExitIgnoringLastError(eType) ==
    /\ inContext
    /\ xmlTree' = IF eType # None THEN backupTree ELSE xmlTree
    /\ lastError' = None
    /\ backupTree' = NoneTree
    /\ inContext' = FALSE
    /\ result' = IF eType = "Cancel" THEN Outcome("exit", None, "True", None)
                 ELSE Outcome("exit", None, None, eType)
    /\ session' = [session EXCEPT !.final = xmlTree, !.eType = eType]
    /\ nesting' = nesting - 1
    /\ UNCHANGED <<modified, input, threads, storage, reader, worker, geometry>>

\* __exit__ restoring the backup whatever happened in the session
ExitAlwaysRestoring(eType) ==
    /\ inContext
    /\ xmlTree' = backupTree
    /\ lastError' = None
    /\ backupTree' = NoneTree
    /\ inContext' = FALSE
    /\ result' = IF eType = "Cancel" THEN Outcome("exit", None, "True", None)
                 ELSE Outcome("exit", None, None, eType)
    /\ session' = [session EXCEPT !.final = xmlTree, !.eType = eType]
    /\ nesting' = nesting - 1
    /\ UNCHANGED <<modified, input, threads, storage, reader, worker, geometry>>

\* __exit__ returning None for Cancel as for any other exception
ExitPropagatingCancel(eType) ==
    /\ inContext
    /\ xmlTree' = IF lastError # None \/ eType # None THEN backupTree ELSE xmlTree
    /\ lastError' = None
    /\ backupTree' = NoneTree
    /\ inContext' = FALSE
    /\ result' = Outcome("exit", None, None, eType)
    /\ session' = [session EXCEPT !.final = xmlTree, !.eType = eType]
    /\ nesting' = nesting - 1
    /\ UNCHANGED <<modified, input, threads, storage, reader, worker, geometry>>

\* __exit__(eType, eValue, eTraceback); result.ret is what it returns, result.exc
\* the exception that leaves the with statement
Leave(eType) ==
    /\ xmlTree' = IF lastError # None \/ eType # None THEN backupTree ELSE xmlTree
    /\ lastError' = None
    /\ backupTree' = NoneTree
    /\ inContext' = FALSE
    /\ result' = IF eType = "Cancel" THEN Outcome("exit", None, "True", None)
                 ELSE Outcome("exit", None, None, eType)
    /\ session' = [session EXCEPT !.final = xmlTree, !.eType = eType]
    /\ nesting' = nesting - 1
    /\ UNCHANGED <<modified, input, threads, storage, reader, worker, geometry>>

\* the end of the with block of a caller that opens one session at a time
Exit(eType) == inContext /\ Leave(eType)

(***************************************************************************)
(* Persistence.  A container file holds, in its slot 'configuration', the  *)
(* serialized document: a document record of kind "bytes".  The storage is *)
(* [filePath, files]: self._filePath and the content of each file, NoFile  *)
(* for a file that does not exist.                                         *)
(***************************************************************************)
FilePaths == {"p", "q"}

NoFile == NoneTree

NoStorage == [filePath |-> None, files |-> [f \in FilePaths |-> NoFile]]

\* container files the store did not write: one without the 'configuration' slot,
\* one whose slot does not hold strings
NoSlotFile == [NoneTree EXCEPT !.kind = "NoSlot"]
NotStringFile == [NoneTree EXCEPT !.kind = "NotString"]
ForeignFiles == {NoSlotFile, NotStringFile}

\* what opening the file and reading its slot raises: h5py.File(path, 'r' or 'r+'),
\* f['configuration'], h5py.check_string_dtype(ds.dtype) is None
OpenError(file) ==
    IF file = NoFile THEN "FileNotFoundError"
    ELSE IF file = NoSlotFile THEN "KeyError"
    ELSE IF file = NotStringFile THEN "ValueError"
    ELSE None

\* what serialization keeps of an element: an empty text is not written
RECURSIVE Written(_)
Written(e) ==
    [e EXCEPT !.hasText = e.hasText /\ e.text # "",
              !.children = [i \in 1..Len(e.children) |-> Written(e.children[i])]]

\* etree.tostring(tree, xml_declaration=True, encoding='UTF-8')
tostring(tree) == [tree EXCEPT !.kind = "bytes", !.gravity = Written(@)]

\* etree.fromstring(data, self._xmlParser): the root element of the document,
\* XMLSyntaxError when the validating parser rejects it
fromstring(data) ==
    IF SchemaValid(data) THEN [root |-> [data EXCEPT !.kind = "Element"], exc |-> None]
    ELSE [root |-> NoneTree, exc |-> "XMLSyntaxError"]

\* a persistence call as a step of the store
Persist(op, path, tree, store, mod, exc) ==
    /\ ~IsNone(xmlTree)
    /\ xmlTree' = tree
    /\ storage' = store
    /\ modified' = mod
    /\ result' = Outcome(op, path, None, exc)
    /\ session' = Observe(None, exc, tree # xmlTree)
    /\ UNCHANGED <<backupTree, lastError, inContext, input, threads, nesting, reader, worker, geometry>>

\* saveAs(path)
SaveAs(path) ==
    Persist("saveAs", path, xmlTree,
            [filePath |-> path, files |-> [storage.files EXCEPT ![path] = tostring(xmlTree)]],
            FALSE, None)

\* save(): the file is opened 'r+', and the root is taken with getroot(), which
\* exists on an ElementTree only
Save ==
    IF storage.filePath = None
    THEN Persist("save", None, xmlTree, storage, modified, "TypeError")
    ELSE IF OpenError(storage.files[storage.filePath]) # None
    THEN Persist("save", storage.filePath, xmlTree, storage, modified,
                 OpenError(storage.files[storage.filePath]))
    ELSE IF xmlTree.kind # "ElementTree"
    THEN Persist("save", storage.filePath, xmlTree, storage, modified, "AttributeError")
    ELSE Persist("save", storage.filePath, xmlTree,
                 [storage EXCEPT !.files[storage.filePath] = tostring(xmlTree)], FALSE, None)

\* load(path) assigning self._filePath before the document is parsed
LoadPathFirst(path) ==
    LET parsed == fromstring(storage.files[path])
        there == [storage EXCEPT !.filePath = path]
    IN  IF OpenError(storage.files[path]) # None
        THEN Persist("load", path, xmlTree, there, modified, OpenError(storage.files[path]))
        ELSE IF parsed.exc # None
        THEN Persist("load", path, xmlTree, there, modified, parsed.exc)
        ELSE Persist("load", path, parsed.root, there, FALSE, None)

\* load(path): the three assignments follow the with block, which an exception
\* leaves early
Load(path) ==
    LET parsed == fromstring(storage.files[path])
    IN  IF OpenError(storage.files[path]) # None
        THEN Persist("load", path, xmlTree, storage, modified, OpenError(storage.files[path]))
        ELSE IF parsed.exc # None
        THEN Persist("load", path, xmlTree, storage, modified, parsed.exc)
        ELSE Persist("load", path, parsed.root, [storage EXCEPT !.filePath = path], FALSE, None)

\* another program leaves a container file at the path
ForeignFile(path) ==
    /\ \E file \in ForeignFiles : storage' = [storage EXCEPT !.files[path] = file]
    /\ result' = Outcome("file", path, None, None)
    /\ UNCHANGED <<xmlTree, backupTree, lastError, inContext, modified, session, input,
                   threads, nesting,
                   reader, worker, geometry>>

\* the variables of the store and of its callers
CoreVars == <<xmlTree, backupTree, lastError, inContext, modified, result, session, input,
              threads, storage, nesting>>

(***************************************************************************)
(* solver_info_manager.py: reading whole lines of a file that grows.       *)
(***************************************************************************)
Newline == "\n"

\* the characters a solver writes
FileChars == {"a", Newline}

\* a file object on an empty file: the attribute incompleteLine is not set
NoReader == [content |-> <<>>, pos |-> 0, hasIncompleteLine |-> FALSE,
             incompleteLine |-> <<>>, results |-> <<>>, line |-> <<>>, ret |-> <<>>]

\* line.endswith('\n')
EndsWithNewline(line) == Len(line) > 0 /\ line[Len(line)] = Newline

\* f.readline(): from the position up to and with the next newline, or up to the
\* end of the file
readline(f) ==
    LET rest == SubSeq(f.content, f.pos + 1, Len(f.content))
        newlines == {k \in 1..Len(rest) : rest[k] = Newline}
    IN  IF newlines = {} THEN rest ELSE SubSeq(rest, 1, Smallest(newlines))

\* readCompleteLineOnly(f) returning the line without the fragments kept before
readCompleteLineOnlyDroppingFragments(f) ==
    LET line == readline(f)
        read == [f EXCEPT !.pos = @ + Len(line), !.line = line]
    IN  IF EndsWithNewline(line)
        THEN [read EXCEPT !.incompleteLine = <<>>, !.ret = line]
        ELSE [read EXCEPT !.hasIncompleteLine = TRUE, !.ret = <<>>,
                          !.incompleteLine = IF f.hasIncompleteLine THEN @ \o line ELSE line]

\* readCompleteLineOnly(f): the file object after the call, ret what it returned
readCompleteLineOnly(f) ==
    LET line == readline(f)
        read == [f EXCEPT !.pos = @ + Len(line), !.line = line]
    IN  IF EndsWithNewline(line)
        THEN IF f.hasIncompleteLine
             THEN [read EXCEPT !.incompleteLine = <<>>, !.ret = f.incompleteLine \o line]
             ELSE [read EXCEPT !.ret = line]
        ELSE [read EXCEPT !.hasIncompleteLine = TRUE, !.ret = <<>>,
                          !.incompleteLine = IF f.hasIncompleteLine THEN @ \o line ELSE line]

\* a call of readCompleteLineOnly; the non-empty results are kept in order
ReadCompleteLineOnly ==
    /\ LET after == readCompleteLineOnly(reader)
       IN  reader' = IF after.ret = <<>> THEN after
                     ELSE [after EXCEPT !.results = Append(@, after.ret)]
    /\ UNCHANGED <<CoreVars, worker, geometry>>

\* the solver appends a character to the file
AppendFile(c) ==
    /\ Len(reader.content) < MaxFile
    /\ reader' = [reader EXCEPT !.content = Append(@, c)]
    /\ UNCHANGED <<CoreVars, worker, geometry>>

(***************************************************************************)
(* solver_info_manager.py: SolverInfoManager on the GUI thread, its Worker *)
(* on a QThread.  The signals start and stop reach the worker as events    *)
(* posted to the thread's event loop; thread.quit() asks the loop to exit. *)
(***************************************************************************)
Regions == 1..NumRegions

\* SolverInfoManager.__init__: no thread, no worker
NoWorker == [thread |-> FALSE, pc |-> "idle", stopRequested |-> FALSE,
             loop |-> "none", posted |-> <<>>, quit |-> FALSE,
             running |-> FALSE, timer |-> None,
             size |-> [r \in Regions |-> 0], infoFiles |-> [r \in Regions |-> 0],
             changingFiles |-> [r \in Regions |-> None],
             collectionReady |-> FALSE, stopRun |-> None]

\* startCollecting up to self.thread.start(): the thread and the Worker are
\* created and the thread is started; the model follows one collection
StartThread ==
    /\ ~worker.thread
    /\ worker.pc = "idle"
    /\ worker.loop = "none"
    /\ worker' = [worker EXCEPT !.thread = TRUE, !.pc = "start", !.loop = "starting"]
    /\ UNCHANGED <<CoreVars, reader, geometry>>

\* startCollecting: self.worker.start.emit()
StartEmit ==
    /\ worker.pc = "start"
    /\ worker' = [worker EXCEPT !.pc = "idle", !.posted = Append(@, "start")]
    /\ UNCHANGED <<CoreVars, reader, geometry>>

\* the started thread enters its event loop
ThreadRun ==
    /\ worker.loop = "starting"
    /\ worker' = [worker EXCEPT !.loop = IF worker.quit THEN "exited" ELSE "running"]
    /\ UNCHANGED <<CoreVars, reader, geometry>>

\* stopCollecting up to self.worker.stop.emit()
StopEmit ==
    /\ worker.thread
    /\ worker.pc = "idle"
    /\ worker' = [worker EXCEPT !.pc = "quit", !.stopRequested = TRUE,
                                !.posted = Append(@, "stop")]
    /\ UNCHANGED <<CoreVars, reader, geometry>>

\* stopCollecting from self.thread.quit() on
StopQuit ==
    /\ worker.pc = "quit"
    /\ worker' = [worker EXCEPT !.pc = "idle", !.quit = TRUE, !.thread = FALSE]
    /\ UNCHANGED <<CoreVars, reader, geometry>>

\* Worker.startRun
startRun(w) ==
    IF w.running THEN w
    ELSE [w EXCEPT !.running = TRUE, !.infoFiles = w.size, !.timer = "active"]

\* getUpdatedFiles(self.infoFiles): the regions whose file has another size than
\* the one recorded
getUpdatedFiles(w) == {r \in Regions : w.size[r] # w.infoFiles[r]}

\* the regions whose entry of changingFiles has no open file: the entry is None,
\* or its f is None
Unopened(w) == {r \in Regions : w.changingFiles[r] \in {None, "found"}}

\* Worker.stopRun closing only the files that are open
stopRunSkippingUnopened(w) ==
    [w EXCEPT !.timer = "stopped", !.running = FALSE, !.stopRun = "done",
              !.changingFiles = [r \in Regions |->
                                    IF w.changingFiles[r] = "open" THEN "closed" ELSE @[r]]]

\* Worker.stopRun: s.f.close() raises AttributeError at the first region whose s
\* or s.f is None
stopRun(w) ==
    IF Unopened(w) = {}
    THEN [w EXCEPT !.timer = "stopped", !.running = FALSE, !.stopRun = "done",
                   !.changingFiles = [r \in Regions |-> "closed"]]
    ELSE [w EXCEPT !.timer = "stopped", !.stopRun = "AttributeError",
                   !.changingFiles = [r \in Regions |->
                                         IF r < Smallest(Unopened(w)) THEN "closed" ELSE @[r]]]

\* Worker.process: the sizes are recorded, a region's first updated file becomes
\* its changing file, and once every region has one the files are opened
process(w) ==
    LET updated == getUpdatedFiles(w)
        found == [w EXCEPT !.infoFiles = w.size,
                           !.changingFiles = [r \in Regions |->
                               IF r \in updated /\ @[r] = None THEN "found" ELSE @[r]]]
    IN  IF ~w.collectionReady /\ \A r \in Regions : found.changingFiles[r] # None
        THEN [found EXCEPT !.collectionReady = TRUE,
                           !.changingFiles = [r \in Regions |-> "open"]]
        ELSE found

\* the event loop delivers the posted start
DispatchStart ==
    /\ worker.loop = "running"
    /\ worker.posted # <<>>
    /\ Head(worker.posted) = "start"
    /\ worker' = [startRun(worker) EXCEPT !.posted = Tail(@)]
    /\ UNCHANGED <<CoreVars, reader, geometry>>

\* the event loop delivers the posted stop
DispatchStop ==
    /\ worker.loop = "running"
    /\ worker.posted # <<>>
    /\ Head(worker.posted) = "stop"
    /\ worker' = [stopRun(worker) EXCEPT !.posted = Tail(@)]
    /\ UNCHANGED <<CoreVars, reader, geometry>>

\* the polling timer fires
Timeout ==
    /\ worker.loop = "running"
    /\ worker.timer = "active"
    /\ worker' = process(worker)
    /\ UNCHANGED <<CoreVars, reader, geometry>>

\* the solver appends to the solverInfo file of a region
SolverWrites(r) ==
    /\ worker.size[r] < MaxWrites
    /\ worker' = [worker EXCEPT !.size[r] = @ + 1]
    /\ UNCHANGED <<CoreVars, reader, geometry>>

\* the event loop returns to its test of the exit flag and leaves
LoopExit ==
    /\ worker.loop = "running"
    /\ worker.quit
    /\ worker' = [worker EXCEPT !.loop = "exited"]
    /\ UNCHANGED <<CoreVars, reader, geometry>>

(***************************************************************************)
(* geometry_manager.py: the selection kept in step between the display and *)
(* the listeners of selectedActorsChanged.                                 *)
(***************************************************************************)
SYNCING_FROM_DISPLAY == "SYNCING_FROM_DISPLAY"
SYNCING_TO_DISPLAY == "SYNCING_TO_DISPLAY"

Actors == 1..NumActors

Selections == SUBSET Actors

\* what a call did: whether it pushed a selection to the display, whether it
\* emitted selectedActorsChanged, what it raised
Did(op, pushed, emitted, exc) == [op |-> op, pushed |-> pushed, emitted |-> emitted, exc |-> exc]

\* GeometryManager.__init__
NoGeometry == [syncingMode |-> None, display |-> {}, listener |-> {},
               out |-> Did("init", FALSE, FALSE, None)]

GeometryStep(next) ==
    /\ geometry' = next
    /\ UNCHANGED <<CoreVars, reader, worker>>

\* selectActors(ids)
SelectActors(ids) ==
    GeometryStep(
        IF geometry.syncingMode = SYNCING_FROM_DISPLAY
        THEN [geometry EXCEPT !.out = Did("selectActors", FALSE, FALSE, None)]
        ELSE [geometry EXCEPT !.syncingMode = SYNCING_TO_DISPLAY, !.display = ids,
                              !.out = Did("selectActors", TRUE, FALSE, None)])

\* clearSyncingFromDisplay()
ClearSyncingFromDisplay ==
    GeometryStep(
        IF geometry.syncingMode # SYNCING_FROM_DISPLAY
        THEN [geometry EXCEPT !.out = Did("clearSyncingFromDisplay", FALSE, FALSE, "RuntimeError")]
        ELSE [geometry EXCEPT !.syncingMode = None,
                              !.out = Did("clearSyncingFromDisplay", FALSE, FALSE, None)])

\* enableSyncingToDisplay()
EnableSyncingToDisplay ==
    GeometryStep(
        IF geometry.syncingMode = SYNCING_TO_DISPLAY
        THEN [geometry EXCEPT !.out = Did("enableSyncingToDisplay", FALSE, FALSE, None)]
        ELSE [geometry EXCEPT !.syncingMode = None,
                              !.out = Did("enableSyncingToDisplay", FALSE, FALSE, None)])

\* disableSyncingToDisplay()
DisableSyncingToDisplay ==
    GeometryStep([geometry EXCEPT !.syncingMode = SYNCING_FROM_DISPLAY,
                                  !.out = Did("disableSyncingToDisplay", FALSE, FALSE, None)])

\* _selectedActorsChanged(gIds) without the test of the mode
selectedActorsChangedAlways(g, gIds) ==
    [g EXCEPT !.display = gIds, !.syncingMode = SYNCING_FROM_DISPLAY, !.listener = gIds,
              !.out = Did("_selectedActorsChanged", FALSE, TRUE, None)]

\* _selectedActorsChanged(gIds): the display signals that its selection is gIds
selectedActorsChanged(g, gIds) ==
    IF g.syncingMode = SYNCING_TO_DISPLAY
    THEN [g EXCEPT !.display = gIds,
                   !.out = Did("_selectedActorsChanged", FALSE, FALSE, None)]
    ELSE [g EXCEPT !.display = gIds, !.syncingMode = SYNCING_FROM_DISPLAY,
                   !.listener = gIds,
                   !.out = Did("_selectedActorsChanged", FALSE, TRUE, None)]

SelectedActorsChanged(gIds) == GeometryStep(selectedActorsChanged(geometry, gIds))

\* _clearSyncingToDisplay(): the display signals selectionApplied
ClearSyncingToDisplay ==
    GeometryStep(
        IF geometry.syncingMode # SYNCING_TO_DISPLAY
        THEN [geometry EXCEPT !.out = Did("_clearSyncingToDisplay", FALSE, FALSE, "RuntimeError")]
        ELSE [geometry EXCEPT !.syncingMode = None,
                              !.out = Did("_clearSyncingToDisplay", FALSE, FALSE, None)])

(***************************************************************************)
(* The store after CoreDB.__init__, before the default material is added.  *)
(***************************************************************************)
TemplateTree == [kind |-> "ElementTree", materials |-> <<>>, regions |-> <<>>,
                 text |-> [p \in LeafPaths |-> TemplateText(p)], gravity |-> TemplateGravity,
                 monitors |-> NoMonitors]

(***************************************************************************)
(* CoreDB(): type.__call__ runs CoreDB.__new__ and then CoreDB.__init__ on *)
(* the object it returned.  A thread is at "start" before the call, at     *)
(* "new" while it holds _mutex, at "return" before "return cls._instance", *)
(* at "init" before the test of _initialized, at "mark" before             *)
(* "self._initialized = True", at "body" while it runs the rest of         *)
(* __init__, and at "done" when CoreDB() has returned.  Instances are      *)
(* numbered from 1; 0 stands for none.                                     *)
(***************************************************************************)
Threads == 1..NumThreads

\* the state of the class before any thread has called CoreDB()
NotConstructed == [pc |-> [t \in Threads |-> "start"], mutex |-> 0, instances |-> 0,
                   instance |-> 0, held |-> [t \in Threads |-> 0],
                   initialized |-> FALSE, runs |-> 0]

\* the state of the class after one caller has constructed the store
OneCaller == [pc |-> [t \in Threads |-> "done"], mutex |-> 0, instances |-> 1,
              instance |-> 1, held |-> [t \in Threads |-> 1],
              initialized |-> TRUE, runs |-> 1]

Store == <<xmlTree, backupTree, lastError, inContext, modified, result, session, input,
          storage, nesting, reader, worker, geometry>>

\* with _mutex: entered
AcquireMutex(t) ==
    /\ threads.pc[t] = "start" /\ threads.mutex = 0
    /\ threads' = [threads EXCEPT !.pc[t] = "new", !.mutex = t]
    /\ UNCHANGED Store

\* if not hasattr(cls, '_instance'): cls._instance = super().__new__(cls); the
\* mutex is released when the with block is left
NewInstance(t) ==
    /\ threads.pc[t] = "new"
    /\ threads' = IF threads.instance = 0
                  THEN [threads EXCEPT !.pc[t] = "return", !.mutex = 0,
                                       !.instances = @ + 1, !.instance = threads.instances + 1]
                  ELSE [threads EXCEPT !.pc[t] = "return", !.mutex = 0]
    /\ UNCHANGED Store

\* return cls._instance
ReturnInstance(t) ==
    /\ threads.pc[t] = "return"
    /\ threads' = [threads EXCEPT !.pc[t] = "init", !.held[t] = threads.instance]
    /\ UNCHANGED Store

\* if hasattr(self, '_initialized'): return
InitCheck(t) ==
    /\ threads.pc[t] = "init"
    /\ threads' = [threads EXCEPT !.pc[t] = IF threads.initialized THEN "done" ELSE "mark"]
    /\ UNCHANGED Store

\* self._initialized = True
InitMark(t) ==
    /\ threads.pc[t] = "mark"
    /\ threads' = [threads EXCEPT !.pc[t] = "body", !.initialized = TRUE]
    /\ UNCHANGED Store

NoInput == [path |-> None, value |-> <<>>, prior |-> <<>>]

(***************************************************************************)
(* SpecValue: one setValue call on the constructed store, for every path,  *)
(* every string of at most MaxLen characters and every prior text.         *)
(***************************************************************************)
\* values a leaf may hold before the call under test
PriorTexts(p) ==
    IF p \notin LeafPaths THEN {<<>>}
    ELSE {TemplateText(p)} \cup
         (IF SchemaType(p).kind \in {"inputNumberType", "decimal", "inputNumberListType"}
          THEN {<<"1", "1">>} ELSE {})

InitValue ==
    /\ \E p \in Paths : \E v \in AllStrings : \E s \in PriorTexts(p) :
           /\ input = [path |-> p, value |-> v, prior |-> s]
           /\ xmlTree = IF p \in LeafPaths THEN [TemplateTree EXCEPT !.text[p] = s]
                        ELSE TemplateTree
    /\ backupTree = NoneTree
    /\ lastError = None
    /\ inContext = FALSE
    /\ modified = FALSE
    /\ result = Outcome("init", None, None, None)
    /\ session = NoSession
    /\ threads = OneCaller
    /\ storage = NoStorage
    /\ nesting = 0
    /\ reader = NoReader
    /\ worker = NoWorker
    /\ geometry = NoGeometry

CallSetValue ==
    /\ result.op = "init"
    /\ SetValue(input.path, input.value)
   
           /\ UNCHANGED <<input, threads, storage, nesting, reader, worker, geometry>>

NextValue == CallSetValue

SpecValue == InitValue /\ [][NextValue]_vars

(***************************************************************************)
(* Spec: the store from construction on, used by one caller that opens one *)
(* session at a time.                                                      *)
(***************************************************************************)
\* the tree __init__ leaves: the template plus the default material 'air'
ConstructedTree == addMaterial(TemplateTree, "air").tree

Init ==
    /\ xmlTree = ConstructedTree
    /\ backupTree = NoneTree
    /\ lastError = None
    /\ inContext = FALSE
    /\ modified = FALSE
    /\ result = Outcome("init", None, None, None)
    /\ session = NoSession
    /\ input = NoInput
    /\ threads = OneCaller
    /\ storage = NoStorage
    /\ nesting = 0
    /\ reader = NoReader
    /\ worker = NoWorker
    /\ geometry = NoGeometry

(***************************************************************************)
(* SpecNew: threads racing to construct the store.                         *)
(***************************************************************************)
\* the rest of __init__: the fields, the schema, the template, the default material
InitBody(t) ==
    /\ threads.pc[t] = "body"
    /\ threads' = [threads EXCEPT !.pc[t] = "done", !.runs = @ + 1]
    /\ xmlTree' = ConstructedTree
    /\ backupTree' = NoneTree
    /\ lastError' = None
    /\ inContext' = FALSE
    /\ modified' = FALSE
    /\ result' = Outcome("init", None, None, None)
    /\ UNCHANGED <<session, input, storage, nesting, reader, worker, geometry>>

\* no object exists yet: the store has no tree
InitNew ==
    /\ xmlTree = NoneTree
    /\ backupTree = NoneTree
    /\ lastError = None
    /\ inContext = FALSE
    /\ modified = FALSE
    /\ result = Outcome("new", None, None, None)
    /\ session = NoSession
    /\ input = NoInput
    /\ threads = NotConstructed
    /\ storage = NoStorage
    /\ nesting = 0
    /\ reader = NoReader
    /\ worker = NoWorker
    /\ geometry = NoGeometry

NextNew ==
    \E t \in Threads :
        \/ AcquireMutex(t)
        \/ NewInstance(t)
        \/ ReturnInstance(t)
        \/ InitCheck(t)
        \/ InitMark(t)
        \/ InitBody(t)

SpecNew == InitNew /\ [][NextNew]_vars

\* the arguments the caller of Spec passes
SessionValues == {<<"pressure", <<"1">>>>, <<"pressure", <<"1", "1", "1">>>>,
                  <<"pressure", <<"N">>>>, <<"maxIterationsPerTimeStep", <<"N">>>>}

SessionMaterials == {"air", "water"}

SessionRegions == {"R1"}

Next ==
    \/ (~inContext /\ Enter)
    \/ \E eType \in ExceptionTypes : Exit(eType)
    \/ \E call \in SessionValues : SetValue(call[1], call[2])
           /\ UNCHANGED <<input, threads, storage, nesting, reader, worker, geometry>>
    \/ \E name \in SessionMaterials : AddMaterial(name)
    \/ \E name \in SessionMaterials : RemoveMaterial(name)
    \/ \E rname \in SessionRegions : AddRegion(rname)

Spec == Init /\ [][Next]_vars

(***************************************************************************)
(* SpecReg: the entity registries, called outside any session, with enough *)
(* names to exhaust each id range.                                         *)
(***************************************************************************)
\* names handed to addMaterial: the material database and one name outside it
RegMaterials == MaterialDB \cup {"unobtainium"}

RegRegions == {"R1", "R2"}

\* (rname, zname) handed to addCellZone; no region "R3" is ever added
ZoneCalls == {<<"R1", "z1">>, <<"R1", "z2">>, <<"R3", "z1">>}

\* (rname, bname, geometricalType) handed to addBoundaryCondition
BoundaryCalls == {<<"R1", "b1", "wall">>, <<"R1", "b2", None>>, <<"R1", "b3", "wall">>,
                  <<"R3", "b1", None>>}

NextReg ==
    \/ \E name \in RegMaterials : AddMaterial(name)
    \/ \E name \in {"air"} : RemoveMaterial(name)
    \/ \E rname \in RegRegions : AddRegion(rname)
    \/ \E call \in ZoneCalls : AddCellZone(call[1], call[2])
    \/ \E call \in BoundaryCalls : AddBoundaryCondition(call[1], call[2], call[3])

SpecReg == Init /\ [][NextReg]_vars

(***************************************************************************)
(* SpecIds: the registries used inside and outside sessions that are       *)
(* committed, cancelled or unwound by an exception.                        *)
(***************************************************************************)
IdsZoneCalls == {<<"R2", "z1">>}

IdsBoundaryCalls == {<<"R1", "b1", "wall">>}

NextIds ==
    \/ (~inContext /\ Enter)
    \/ \E eType \in ExceptionTypes : Exit(eType)
    \/ \E name \in SessionMaterials : AddMaterial(name)
    \/ \E name \in SessionMaterials : RemoveMaterial(name)
    \/ \E rname \in RegRegions : AddRegion(rname)
    \/ \E call \in IdsZoneCalls : AddCellZone(call[1], call[2])
    \/ \E call \in IdsBoundaryCalls : AddBoundaryCondition(call[1], call[2], call[3])

SpecIds == Init /\ [][NextIds]_vars

(***************************************************************************)
(* SpecBulk: setBulk and getBulk on <gravity>, for every mapping of a      *)
(* bounded family, inside and outside sessions.                            *)
(***************************************************************************)
\* the paths handed to the bulk codec: one element and one path matching nothing
BulkPaths == {"gravity", "missing"}

\* the keys of the mappings: an attribute, the text, two child tags
BulkKeys == {<<"@", "disabled">>, <<"$">>, <<"x">>, <<"y">>}

\* the values given to an attribute key
AttributeValues == {Scalar("str", "true"), Scalar("str", "maybe"), Scalar("int", "1")}

\* the values given to the other keys: scalars, nested mappings, lists
MemberValues ==
    LET one == Scalar("str", "1")
        empty == Dict(<<>>)
    IN  {one, Scalar("int", "1"), Scalar("object", "<object>"),
         empty, Dict(<<<<<<"$">>, one>>>>), Dict(<<<<<<"x">>, one>>>>),
         Dict(<<<<<<"@", "disabled">>, Scalar("str", "true")>>, <<<<"$">>, one>>>>),
         List(<<>>), List(<<one>>), List(<<one, one>>), List(<<empty>>),
         List(<<empty, Dict(<<<<<<"x">>, one>>>>), empty>>),
         List(<<empty, one>>), List(<<one, empty>>), List(<<List(<<one>>)>>)}

ValuesOf(k) == IF Head(k) = "@" THEN AttributeValues ELSE MemberValues

\* the mappings of at most two keys, and one value that is no mapping
BulkValues ==
    {Dict(<<>>), List(<<>>)}
    \cup UNION {{Dict(<<<<k, v>>>>) : v \in ValuesOf(k)} : k \in BulkKeys}
    \cup UNION {UNION {{Dict(<<<<k, v>>, <<l, w>>>>) : v \in ValuesOf(k), w \in ValuesOf(l)}
                       : l \in BulkKeys \ {k}} : k \in BulkKeys}

InitBulk ==
    /\ \E p \in BulkPaths : \E d \in BulkValues : input = [path |-> p, value |-> d, prior |-> <<>>]
    /\ xmlTree = ConstructedTree
    /\ backupTree = NoneTree
    /\ lastError = None
    /\ inContext = FALSE
    /\ modified = FALSE
    /\ result = Outcome("init", None, None, None)
    /\ session = NoSession
    /\ threads = OneCaller
    /\ storage = NoStorage
    /\ nesting = 0
    /\ reader = NoReader
    /\ worker = NoWorker
    /\ geometry = NoGeometry

NextBulk ==
    \/ (~inContext /\ Enter)
    \/ \E eType \in ExceptionTypes : Exit(eType)
    \/ SetBulk(input.path, input.value)
    \/ GetBulk(input.path)

SpecBulk == InitBulk /\ [][NextBulk]_vars

(***************************************************************************)
(* SpecStore: every kind of mutation of the document, inside and outside   *)
(* sessions: values, attributes and materials.                             *)
(***************************************************************************)
\* (xpath, value) handed to setValue
StoreValues == {<<"pressure", <<"1">>>>, <<"pressure", <<"N", "A", "N">>>>}

\* the material added to and removed from the default one
StoreMaterials == {"water"}

\* (xpath, name, value) handed to setAttribute and getAttribute
StoreAttributes == {<<"gravity", <<"disabled">>, "true">>, <<"gravity", <<"disabled">>, "maybe">>,
                    <<"gravity", <<"absent">>, "true">>, <<"missing", <<"disabled">>, "true">>}

NextStore ==
    \/ (~inContext /\ Enter)
    \/ \E eType \in ExceptionTypes : Exit(eType)
    \/ \E call \in StoreValues : SetValue(call[1], call[2])
           /\ UNCHANGED <<input, threads, storage, nesting, reader, worker, geometry>>
    \/ \E call \in StoreAttributes : SetAttribute(call[1], call[2], call[3])
    \/ \E call \in StoreAttributes : GetAttribute(call[1], call[2])
    \/ \E name \in StoreMaterials : AddMaterial(name)
    \/ \E name \in StoreMaterials : RemoveMaterial(name)

SpecStore == Init /\ [][NextStore]_vars

(***************************************************************************)
(* SpecFile: saving and loading between edits of values, attributes and    *)
(* materials, outside sessions.                                            *)
(***************************************************************************)
\* (xpath, name, value) handed to setAttribute
FileAttributes == {<<"gravity", <<"disabled">>, "true">>, <<"gravity", <<"disabled">>, "maybe">>}

NextFile ==
    \/ \E path \in {"p"} : SaveAs(path)
    \/ Save
    \/ \E path \in FilePaths : Load(path)
    \/ \E path \in {"q"} : ForeignFile(path)
    \/ \E p \in {"pressure", "general"} : GetValue(p)
    \/ \E call \in StoreValues : SetValue(call[1], call[2])
           /\ UNCHANGED <<input, threads, storage, nesting, reader, worker, geometry>>
    \/ \E call \in FileAttributes : SetAttribute(call[1], call[2], call[3])
    \/ \E name \in StoreMaterials : AddMaterial(name)
    \/ \E name \in StoreMaterials : RemoveMaterial(name)

SpecFile == Init /\ [][NextFile]_vars

(***************************************************************************)
(* SpecMon: monitors of two kinds added and removed in any order.          *)
(***************************************************************************)
\* the kinds the caller uses
MonKinds == {"force", "point"}

\* (kind, name) handed to remove<Kind>Monitor: every default name of the kind,
\* the one past the range included
MonRemovals == {<<kind, MonitorName(kind, i)>> : kind \in MonKinds, i \in 1..MONITOR_MAX_INDEX}

NextMon ==
    \/ \E kind \in MonKinds : AddMonitor(kind)
    \/ \E call \in MonRemovals : RemoveMonitor(call[1], call[2])

SpecMon == Init /\ [][NextMon]_vars

(***************************************************************************)
(* SpecRead: readCompleteLineOnly called at any moment while the file      *)
(* grows character by character.                                           *)
(***************************************************************************)
NextRead ==
    \/ \E c \in FileChars : AppendFile(c)
    \/ ReadCompleteLineOnly

SpecRead == Init /\ [][NextRead]_vars

(***************************************************************************)
(* SpecSolver: one collection started and stopped at any moment.  The      *)
(* event loop delivers a posted event as long as it runs, and leaves once  *)
(* asked to; stopCollecting runs to its end.                               *)
(***************************************************************************)
Dispatch == DispatchStart \/ DispatchStop

NextSolver ==
    \/ StartThread
    \/ StartEmit
    \/ ThreadRun
    \/ StopEmit
    \/ StopQuit
    \/ DispatchStart
    \/ DispatchStop
    \/ Timeout
    \/ \E r \in Regions : SolverWrites(r)
    \/ LoopExit

SpecSolver ==
    /\ Init
    /\ [][NextSolver]_vars
    /\ WF_vars(StartEmit)
    /\ WF_vars(StopQuit)
    /\ WF_vars(ThreadRun)
    /\ WF_vars(Dispatch)
    /\ WF_vars(LoopExit)

(***************************************************************************)
(* SpecSync: the callers of GeometryManager and the signals of the display *)
(* in any order.                                                           *)
(***************************************************************************)
NextSync ==
    \/ \E ids \in Selections : SelectActors(ids)
    \/ ClearSyncingFromDisplay
    \/ EnableSyncingToDisplay
    \/ DisableSyncingToDisplay
    \/ \E gIds \in Selections : SelectedActorsChanged(gIds)
    \/ ClearSyncingToDisplay

SpecSync == Init /\ [][NextSync]_vars

(***************************************************************************)
(* SpecNest: a caller that also opens a with block of the store inside     *)
(* another one.  Each with block runs __enter__ once and __exit__ once.    *)
(***************************************************************************)
\* (xpath, value) handed to setValue: one stored, one rejected
NestValues == {<<"pressure", <<"1">>>>, <<"pressure", <<"N">>>>}

NextNest ==
    \/ (nesting < MaxNesting /\ Enter)
    \/ \E eType \in ExceptionTypes : nesting > 0 /\ Leave(eType)
    \/ \E call \in NestValues : SetValue(call[1], call[2])
           /\ UNCHANGED <<input, threads, storage, nesting, reader, worker, geometry>>

SpecNest == Init /\ [][NextNest]_vars

(***************************************************************************)
(* Claims about the transactional edit session (Spec).                     *)
(***************************************************************************)
\* __exit__ has just returned
Ended == result.op = "exit"

\* setValue returned an error value inside the session
ValueErrorSeen == session.errors \cap ContentErrors # {}

\* C1: if a setValue call of the session returned OutOfRange, IntegerOnly or
\* FloatOnly, or an exception unwinds the session, the tree after __exit__ is the
\* snapshot taken at __enter__, whatever else was edited.
C1_RollbackAtomicity ==
    (Ended /\ (ValueErrorSeen \/ session.eType # None)) => xmlTree = session.snapshot

\* a session with a rejected setValue and a successful edit was rolled back
C1_Witness ==
    /\ Ended /\ ValueErrorSeen /\ session.edited /\ session.eType = None
    /\ session.final # session.snapshot
    /\ xmlTree = session.snapshot

\* C2 as stated: after a rejected setValue and a later successful call that leaves
\* every field valid, __exit__ keeps the mutated tree.
C2_CorrectiveFixCommits ==
    (Ended /\ session.fixed /\ session.eType = None /\ SchemaValid(session.final))
        => xmlTree = session.final

\* C2 as amended: the pending error stays set until __exit__, whatever succeeds
\* after it, so a session with a rejected setValue is rolled back even when a
\* later call succeeded.
C2_ErrorStaysPending ==
    /\ (inContext /\ ValueErrorSeen) => lastError \in ContentErrors
    /\ (Ended /\ session.fixed /\ session.eType = None) => xmlTree = session.snapshot

\* a rejected setValue, then a successful edit, then a clean __exit__
C2_Witness ==
    /\ Ended /\ session.fixed /\ session.eType = None
    /\ SchemaValid(session.final) /\ session.final # session.snapshot
    /\ xmlTree = session.snapshot

\* C3: every call of the session that returns an error value, removeMaterial's
\* Referenced and Empty included, makes __exit__ roll the session back.
C3_EveryErrorRollsBack ==
    (Ended /\ session.errors # {}) => xmlTree = session.snapshot

\* C4: a session that ends with no pending error and no exception is committed:
\* the tree is the mutated tree, the snapshot is discarded, the store is idle.
C4_Commit ==
    (Ended /\ ~ValueErrorSeen /\ session.eType = None) =>
        /\ xmlTree = session.final
        /\ backupTree = NoneTree
        /\ ~inContext
        /\ lastError = None

\* an edited session was committed
C4_Witness ==
    /\ Ended /\ ~ValueErrorSeen /\ session.eType = None /\ session.edited
    /\ xmlTree = session.final /\ xmlTree # session.snapshot

\* C5: Cancel raised in a session is absorbed by __exit__ after the rollback; any
\* other exception also rolls back and is propagated.
C5_Cancel ==
    /\ (Ended /\ session.eType = "Cancel") =>
            /\ xmlTree = session.snapshot
            /\ result.ret = "True" /\ result.exc = None
    /\ (Ended /\ session.eType = "Exception") =>
            /\ xmlTree = session.snapshot
            /\ result.ret = None /\ result.exc = "Exception"

\* an edited session was cancelled
C5_Witness ==
    /\ Ended /\ session.eType = "Cancel" /\ session.edited
    /\ session.final # session.snapshot
    /\ xmlTree = session.snapshot /\ result.exc = None

(***************************************************************************)
(* Claims about setValue (SpecValue).                                      *)
(***************************************************************************)
\* the call under test has returned or raised
Called == result.op = "setValue"

\* the leaves with declared numeric bounds [lo, hi]
BoundedLeaves == {p \in LeafPaths : SchemaType(p).kind \in {"inputNumberType", "decimal"}
                                     /\ SchemaType(p).hasMin /\ SchemaType(p).hasMax}

\* value parsed as the declared subtype of the leaf
ParsedAs(p, v) == IF SchemaType(p).integer THEN ParseInt(v) ELSE ParseFloat(v)

ParseError(p) == IF SchemaType(p).integer THEN "INTEGER_ONLY" ELSE "FLOAT_ONLY"

\* lo <= v <= hi, which no NaN satisfies
WithinBounds(p, d) == ~d.nan /\ InBounds(SchemaType(p), d.v)

\* C6: on a leaf with declared bounds [lo,hi], setValue(p,v) stores v trimmed and
\* lower-cased and returns no error iff v parses as the declared subtype and
\* lo <= v <= hi; a parse failure returns IntegerOnly or FloatOnly, an
\* out-of-bounds value returns OutOfRange, and after either the leaf holds its
\* prior value.
C6_BoundedSetValue ==
    (Called /\ input.path \in BoundedLeaves) =>
        LET p == input.path
            d == ParsedAs(p, input.value)
        IN  IF d.ok /\ WithinBounds(p, d)
            THEN /\ result.ret = None /\ result.exc = None
                 /\ xmlTree.text[p] = Strip(Lower(input.value))
            ELSE /\ result.ret = (IF d.ok THEN "OUT_OF_RANGE" ELSE ParseError(p))
                 /\ result.exc = None
                 /\ xmlTree.text[p] = input.prior

\* the tokens of the list under test that float() rejects
BadTokens == {i \in 1..Len(Split(input.value)) : ~ParseFloat(Split(input.value)[i]).ok}

\* the tokens that are floats outside the bounds declared for the list's elements
OutOfBoundsTokens ==
    {i \in 1..Len(Split(input.value)) :
        /\ ParseFloat(Split(input.value)[i]).ok
        /\ ~WithinBounds(input.path, ParseFloat(Split(input.value)[i]))}

ListCalled == Called /\ SchemaType(input.path).kind = "inputNumberListType"

IdsOf(tree, op, arg) ==
    LET r == RegionIndex(tree, arg)
    IN  CASE op = "addMaterial" -> MaterialIds(tree)
          [] op = "addCellZone" /\ r # 0 ->
                {tree.regions[r].cellZones[i].czid : i \in 1..Len(tree.regions[r].cellZones)}
          [] op = "addBoundaryCondition" /\ r # 0 ->
                {tree.regions[r].boundaryConditions[i].bcid :
                    i \in 1..Len(tree.regions[r].boundaryConditions)}
          [] OTHER -> {}

\* the ceiling of the scope of an add
Ceiling(op) == CASE op = "addMaterial" -> MATERIAL_MAX_INDEX
                 [] op = "addCellZone" -> CELL_ZONE_MAX_INDEX
                 [] OTHER -> BOUNDARY_CONDITION_MAX_INDEX

IdAdds == {"addMaterial", "addCellZone", "addBoundaryCondition"}

\* the ids of [1, ceiling] that no entity of the scope holds
Unused(tree, op, arg) == {i \in 1..Ceiling(op) : Str(i) \notin IdsOf(tree, op, arg)}

\* C8: removeMaterial of a material whose id is the material reference of some
\* region returns Referenced and leaves the tree unchanged; removing an
\* unreferenced material that is not the last one succeeds and the material is no
\* longer in getMaterials().
C8_ReferencedBlocksRemoval ==
    [][(result'.op = "removeMaterial" /\ result'.arg \in MaterialNames(xmlTree)) =>
        LET at == CHOOSE i \in 1..Len(xmlTree.materials) :
                      xmlTree.materials[i].name = result'.arg
            mid == xmlTree.materials[at].mid
            left == getMaterials(xmlTree')
        IN  IF mid \in RegionMaterialTexts(xmlTree, RegionsParent)
            THEN result'.ret = "REFERENCED" /\ xmlTree' = xmlTree
            ELSE Len(xmlTree.materials) > 1 =>
                    /\ result'.ret = None
                    /\ \A i \in 1..Len(left) : left[i][2] # result'.arg]_vars

\* no two entities of a sequence carry the same id
Distinct(seq, id(_)) == \A i, j \in 1..Len(seq) : id(seq[i]) = id(seq[j]) => i = j

UniqueIds(tree) ==
    /\ LET mid(m) == m.mid IN Distinct(tree.materials, mid)
    /\ \A r \in 1..Len(tree.regions) :
           /\ LET czid(z) == z.czid IN Distinct(tree.regions[r].cellZones, czid)
           /\ LET bcid(b) == b.bcid IN Distinct(tree.regions[r].boundaryConditions, bcid)

\* C10: in every state reached by adds, removes and sessions, committed or rolled
\* back, no two entities of a scope carry the same id, and an add hands out an
\* id only if no entity of the scope holds it at that moment.
C10_UniqueIds ==
    /\ [](~IsNone(xmlTree) => UniqueIds(xmlTree))
    /\ [][(result'.op \in IdAdds /\ result'.index # 0) =>
            /\ Str(result'.index) \notin IdsOf(xmlTree, result'.op, result'.arg)
            /\ Str(result'.index) \in IdsOf(xmlTree', result'.op, result'.arg)]_vars

\* an id freed by a removal or a rollback was handed out again: the material just
\* added follows, in the document, a material with a larger id
C10_Witness ==
    /\ result.op = "addMaterial" /\ result.index # 0
    /\ \E i \in 1..Len(xmlTree.materials) :
           ParseInt(xmlTree.materials[i].mid).v > result.index
    /\ UniqueIds(xmlTree)

\* C9: addMaterial, addCellZone and addBoundaryCondition return the smallest id of
\* [1, ceiling] not in use in the scope, and fail with OverflowError, leaving the
\* tree unchanged, only when every id of [1, ceiling] is in use.
C9_SmallestFreeId ==
    [][result'.op \in IdAdds =>
        LET op == result'.op
            free == Unused(xmlTree, op, result'.arg)
        IN  /\ result'.index # 0 => result'.index = Smallest(free)
            /\ result'.exc = "OverflowError" => (free = {} /\ xmlTree' = xmlTree)]_vars

(***************************************************************************)
(* Claims about the invariants of the registries.                          *)
(***************************************************************************)
\* C11: the materials list is never empty: the constructed store holds the
\* default material, removeMaterial of the only material returns Empty and
\* removes nothing, and no registry operation or rollback empties the list.
C11_MaterialExists ==
    /\ [](~IsNone(xmlTree) => Len(xmlTree.materials) >= 1)
    /\ [][(result'.op = "removeMaterial" /\ Len(xmlTree.materials) = 1
                /\ result'.arg \in MaterialNames(xmlTree)) =>
            (result'.ret = "EMPTY" /\ xmlTree' = xmlTree)]_vars

\* the only material was asked to be removed and is still there
C11_Witness ==
    /\ result.op = "removeMaterial" /\ result.ret = "EMPTY"
    /\ Len(xmlTree.materials) = 1 /\ result.arg \in MaterialNames(xmlTree)

\* the names of the cell zones and of the boundary conditions of a region
ZoneNames(tree, rname) ==
    LET r == RegionIndex(tree, rname)
    IN  IF r = 0 THEN {}
        ELSE {tree.regions[r].cellZones[i].name : i \in 1..Len(tree.regions[r].cellZones)}

BoundaryNames(tree, rname) ==
    LET r == RegionIndex(tree, rname)
    IN  IF r = 0 THEN {}
        ELSE {tree.regions[r].boundaryConditions[i].name :
                  i \in 1..Len(tree.regions[r].boundaryConditions)}

UniqueNames(tree) ==
    /\ LET name(m) == m.name IN Distinct(tree.materials, name)
    /\ LET name(r) == r.name IN Distinct(tree.regions, name)
    /\ \A r \in 1..Len(tree.regions) :
           /\ LET name(z) == z.name IN Distinct(tree.regions[r].cellZones, name)
           /\ LET name(b) == b.name IN Distinct(tree.regions[r].boundaryConditions, name)

\* the add was refused as a duplicate and changed nothing
Refused == result'.exc = "FileExistsError" /\ xmlTree' = xmlTree

\* C12: no scope holds two entities of the same name (materials and regions in
\* the document, cell zones and boundary conditions in their region), and an add
\* of a name the scope already holds raises FileExistsError and leaves the tree
\* unchanged.
C12_UniqueNames ==
    /\ [](~IsNone(xmlTree) => UniqueNames(xmlTree))
    /\ [][/\ \A name \in MaterialDB :
                (AddMaterial(name) /\ name \in MaterialNames(xmlTree)) => Refused
          /\ \A rname \in RegRegions :
                (AddRegion(rname) /\ rname \in RegionNames(xmlTree)) => Refused
          /\ \A call \in IdsZoneCalls :
                (AddCellZone(call[1], call[2]) /\ call[2] \in ZoneNames(xmlTree, call[1]))
                    => Refused
          /\ \A call \in IdsBoundaryCalls :
                (AddBoundaryCondition(call[1], call[2], call[3])
                    /\ call[2] \in BoundaryNames(xmlTree, call[1])) => Refused]_vars

\* addRegion("R1") was refused and getRegions() holds "R1" exactly once
C12_Witness ==
    /\ result.op = "addRegion" /\ result.arg = "R1" /\ result.exc = "FileExistsError"
    /\ Cardinality({i \in 1..Len(getRegions(xmlTree)) : getRegions(xmlTree)[i] = "R1"}) = 1

(***************************************************************************)
(* Claims about the bulk codec (SpecBulk).                                 *)
(***************************************************************************)
\* a == b on Python values: dicts compare by key, lists by position
RECURSIVE PyEq(_, _)
PyEq(a, b) ==
    IF a.t # b.t THEN FALSE
    ELSE IF a.t = "dict"
    THEN /\ {a.items[i][1] : i \in 1..Len(a.items)} = {b.items[j][1] : j \in 1..Len(b.items)}
         /\ \A i \in 1..Len(a.items) : \A j \in 1..Len(b.items) :
                a.items[i][1] = b.items[j][1] => PyEq(a.items[i][2], b.items[j][2])
    ELSE IF a.t = "list"
    THEN /\ Len(a.items) = Len(b.items)
         /\ \A i \in 1..Len(a.items) : PyEq(a.items[i], b.items[i])
    ELSE a.s = b.s

\* the setBulk call under test has returned or raised
BulkCalled == result.op = "setBulk"

\* the step is the setBulk call under test
BulkStep == result'.op = "setBulk" /\ SetBulk(input.path, input.value)

\* C13: for every mapping d that setBulk(path, d) accepts, getBulk(path) called
\* afterwards returns a mapping equal to d.
C13_BulkRoundTrip ==
    (BulkCalled /\ result.exc = None) =>
        /\ getBulk(xmlTree, input.path).exc = None
        /\ PyEq(getBulk(xmlTree, input.path).ret, input.value)

\* C14: a setBulk call that raises, while rebuilding or at the re-validation of
\* the document, leaves the tree as it was before the call.
C14_RejectedBulkLeavesTree ==
    [][(BulkStep /\ result'.exc # None) => xmlTree' = xmlTree]_vars

\* a primitive scalar
IsScalar(v) == v.t \in {"str", "int"}

\* a scalar, a mapping of supported values, or a list whose members are all
\* scalars or all mappings of supported values
RECURSIVE Supported(_)
Supported(v) ==
    \/ IsScalar(v)
    \/ v.t = "dict" /\ \A i \in 1..Len(v.items) : Supported(v.items[i][2])
    \/ /\ v.t = "list"
       /\ \/ \A i \in 1..Len(v.items) : IsScalar(v.items[i])
          \/ \A i \in 1..Len(v.items) : v.items[i].t = "dict" /\ Supported(v.items[i])

\* the values of the element keys of the mapping under test (attribute values are
\* strings by the attribute's own rule)
ElementValues(d) == {d.items[i][2] : i \in {j \in 1..Len(d.items) : Head(d.items[j][1]) # "@"}}

\* C15: setBulk raises ValueError, and stores nothing, for every mapping that
\* holds a value which is no primitive scalar, no nested mapping and no list whose
\* members are all scalars or all mappings.
C15_UnsupportedShapeRaises ==
    [][(BulkStep /\ inContext /\ input.path = "gravity" /\ input.value.t = "dict"
            /\ \E v \in ElementValues(input.value) : ~Supported(v))
        => (result'.exc = "ValueError" /\ xmlTree' = xmlTree)]_vars

\* C16: setBulk called while no session is active raises RuntimeError and leaves
\* the tree untouched, whatever the path and the mapping.
C16_BulkNeedsSession ==
    [][(BulkStep /\ ~inContext) =>
          (result'.exc = "RuntimeError" /\ xmlTree' = xmlTree)]_vars

\* setBulk was refused outside a session for a mapping that it stores inside one
C16_Witness ==
    /\ BulkCalled /\ result.exc = "RuntimeError" /\ ~inContext
    /\ xmlTree = ConstructedTree
    /\ input.path = "gravity"
    /\ input.value = Dict(<<<<<<"@", "disabled">>, Scalar("str", "true")>>>>)

\* the children of an element that carry a tag, in document order
Kids(e, tag) == LET Tagged(c) == c.tag = tag IN SelectSeq(e.children, Tagged)

\* the value v is the serialization that the shape rules give for the element e
RECURSIVE HasShape(_, _)
HasShape(v, e) ==
    IF e.hasText /\ e.attrib = <<>> /\ e.children = <<>>
    THEN v = Scalar("str", e.text)
    ELSE /\ v.t = "dict"
         /\ \A i, j \in 1..Len(v.items) : v.items[i][1] = v.items[j][1] => i = j
         /\ {v.items[i][1] : i \in 1..Len(v.items)} =
                {<<"@">> \o e.attrib[i][1] : i \in 1..Len(e.attrib)}
                \cup {e.children[i].tag : i \in 1..Len(e.children)}
                \cup (IF e.hasText THEN {<<"$">>} ELSE {})
         /\ \A i \in 1..Len(v.items) :
                LET k == v.items[i][1]
                    w == v.items[i][2]
                IN  IF Head(k) = "@"
                    THEN \E a \in 1..Len(e.attrib) :
                             e.attrib[a][1] = Tail(k) /\ w = Scalar("str", e.attrib[a][2])
                    ELSE IF Head(k) = "$" THEN w = Scalar("str", e.text)
                    ELSE IF Len(Kids(e, k)) = 1 THEN HasShape(w, Kids(e, k)[1])
                    ELSE /\ w.t = "list" /\ Len(w.items) = Len(Kids(e, k))
                         /\ \A n \in 1..Len(w.items) : HasShape(w.items[n], Kids(e, k)[n])

\* C17: getBulk gives one key per child tag, holding the child's serialization
\* when the tag occurs once and the list of the serializations in document order
\* when it repeats, one '@' key per attribute, and the node's text under '$' only
\* when the node has attributes or children; a node with text alone serializes
\* to the bare string.
C17_BulkShape ==
    (result.op = "getBulk" /\ result.exc = None) => HasShape(result.ret, xmlTree.gravity)

\* getBulk returned a list of three serializations next to the node's text
C17_Witness ==
    /\ result.op = "getBulk" /\ result.exc = None /\ result.ret.t = "dict"
    /\ \E i, j \in 1..Len(result.ret.items) :
           /\ result.ret.items[i][2].t = "list" /\ Len(result.ret.items[i][2].items) = 3
           /\ result.ret.items[j][1] = <<"$">>
    /\ Len(xmlTree.gravity.children) = 3

(***************************************************************************)
(* Claims about re-validation (SpecStore).                                 *)
(***************************************************************************)
\* C18: the document is schema-valid whenever no session is active, that is
\* after every operation completed outside a session and after every __exit__:
\* a mutation is re-validated and one that fails does not stay in the tree.
C18_ValidOutsideSessions ==
    (~inContext /\ ~IsNone(xmlTree)) => SchemaValid(xmlTree)

(***************************************************************************)
(* Claims about construction (SpecNew).                                    *)
(***************************************************************************)
\* the threads for which CoreDB() has returned
Constructors == {t \in Threads : threads.pc[t] = "done"}

\* C19: under any interleaving of threads calling CoreDB(), all callers obtain
\* the same instance, the body of __init__ runs exactly once, and no caller
\* returns from CoreDB() while the construction of the store is incomplete.
C19_SingletonConstruction ==
    /\ \A t, u \in Constructors : threads.held[t] = threads.held[u]
    /\ threads.runs <= 1
    /\ Constructors # {} => (threads.runs = 1 /\ ~IsNone(xmlTree))

(***************************************************************************)
(* Claims about persistence (SpecFile).                                    *)
(***************************************************************************)
\* the step is load(path) of a file that was saved before
LoadStep(path) ==
    result'.op = "load" /\ Load(path) /\ OpenError(storage.files[path]) = None

\* C20: after saveAs(p) or save() and any edits, load(p) replaces the whole tree
\* by the saved document: the tree equals the tree at save time, nothing of the
\* tree before the load survives, and isModified is false.
C20_LoadRestoresSaved ==
    [][\A path \in FilePaths :
          LoadStep(path) =>
              /\ result'.exc = None
              /\ tostring(xmlTree') = storage.files[path]
              /\ modified' = FALSE]_vars

(***************************************************************************)
(* Claims about nested sessions (SpecNest).                                *)
(***************************************************************************)
\* C22: for any sequence of __enter__ and __exit__, an __enter__ inside an active
\* session included, the store holds a document tree after every __exit__: a
\* rollback never replaces the tree by a snapshot that is already discarded.
C22_TreeAfterEveryExit ==
    result.op = "exit" => ~IsNone(xmlTree)

\* the same document held as the ElementTree that etree.parse returns
AsElementTree(tree) == [tree EXCEPT !.kind = "ElementTree"]

\* the store holds the root element that load installed
Loaded == xmlTree.kind = "Element"

\* C23: after load(), getValue, setValue and save() behave on the loaded tree as
\* they do on the tree that construction leaves: they return and raise what they
\* would for the same document held as an ElementTree.
C23_LoadedStoreWorks ==
    [][Loaded =>
        /\ \A call \in StoreValues :
              (result'.op = "setValue" /\ SetValue(call[1], call[2])) =>
                  LET o == Validate(AsElementTree(xmlTree), call[1], call[2])
                  IN  /\ result'.ret = o.ret
                      /\ o.exc # None => result'.exc = o.exc
                      /\ o.stored => xmlTree'.text[call[1]] = o.text
        /\ \A p \in {"pressure", "general"} :
              (result'.op = "getValue" /\ GetValue(p)) =>
                  /\ result'.exc = getValue(AsElementTree(xmlTree), p).exc
                  /\ result'.ret = getValue(AsElementTree(xmlTree), p).ret
        /\ (result'.op = "save" /\ Save) => result'.exc = None]_vars

\* C24: in every reachable state the material reference of every region is the id
\* of a material that is in the materials list.
C24_NoDanglingMaterial ==
    ~IsNone(xmlTree) =>
        \A i \in 1..Len(xmlTree.regions) :
            xmlTree.regions[i].material \in MaterialIds(xmlTree)

\* the document last constructed, saved or loaded, as serialized
LastDocument ==
    IF storage.filePath = None THEN tostring(ConstructedTree)
    ELSE storage.files[storage.filePath]

\* C25: isModified is true whenever the tree differs from the document last
\* constructed, saved or loaded.
C25_ModifiedTracksChanges ==
    tostring(xmlTree) # LastDocument => modified

\* the step is a load(path) that raised
FailedLoad(path) == result'.op = "load" /\ Load(path) /\ result'.exc # None

\* C27: a load() that fails (file or slot missing, slot not of a string type,
\* document rejected by the validating parser) leaves the tree, the current file
\* path and the modified flag as they were before the call.
C27_FailedLoadChangesNothing ==
    [][\A path \in FilePaths :
          FailedLoad(path) =>
              /\ xmlTree' = xmlTree
              /\ storage'.filePath = storage.filePath
              /\ modified' = modified]_vars

\* a load failed on a file of another program while the store had a current path
\* and unsaved changes
C27_Witness ==
    /\ result.op = "load"
    /\ result.exc \in {"KeyError", "ValueError"}
    /\ storage.filePath # None
    /\ storage.filePath # result.arg
    /\ modified

(***************************************************************************)
(* Claims about what a session inherits (Spec).                            *)
(***************************************************************************)
\* the step ends, without an exception, a session none of whose calls returned
\* an error
CleanExit ==
    /\ result'.op = "exit"
    /\ inContext
    /\ session'.eType = None
    /\ session.errors = {}

\* C26: a session whose own calls all succeed and that ends without exception
\* commits, whatever happened before its begin: errors that setValue returned
\* outside any session or in an earlier session never make it roll back.
C26_NoErrorCarryOver ==
    [][CleanExit => (xmlTree' = xmlTree /\ result'.exc = None)]_vars

\* a session that edited the tree, had no error and ended without exception has
\* committed
C26_Witness ==
    /\ result.op = "exit"
    /\ session.eType = None
    /\ session.errors = {}
    /\ session.edited
    /\ xmlTree = session.final
    /\ xmlTree # session.snapshot

(***************************************************************************)
(* Claims about monitors (SpecMon).                                        *)
(***************************************************************************)
\* the names of a list of monitors are pairwise distinct
DistinctNames(names) == \A i, j \in 1..Len(names) : names[i] = names[j] => i = j

\* the numbers of the range whose default name no monitor of the kind carries
UnusedNumbers(tree, kind) ==
    {n \in 1..(MONITOR_MAX_INDEX - 1) :
        \A k \in 1..Len(tree.monitors[kind]) :
            tree.monitors[kind][k] # MonitorName(kind, n)}

\* C21: add<Kind>Monitor names the new monitor '<prefix><n>' with the smallest
\* n >= 1 of the range whose name no monitor of the kind carries, so the names of
\* one kind stay pairwise distinct and the lowest freed number is used next; when
\* every n of the range is taken the add fails and the tree is unchanged.
C21_MonitorNames ==
    [][\A kind \in MonitorKinds :
          (result'.op = "addMonitor" /\ result'.arg[1] = kind) =>
              LET unused == UnusedNumbers(xmlTree, kind)
              IN  /\ DistinctNames(xmlTree'.monitors[kind])
                  /\ IF unused = {}
                     THEN result'.exc = "OverflowError" /\ xmlTree' = xmlTree
                     ELSE /\ result'.exc = None
                          /\ \E n \in unused :
                                /\ \A m \in unused : n <= m
                                /\ result'.ret = MonitorName(kind, n)
                                /\ xmlTree'.monitors[kind] =
                                       Append(xmlTree.monitors[kind], result'.ret)]_vars

\* an add reused number 1, freed by a removal, while a monitor with number 2 of
\* the same kind was there
C21_Witness ==
    /\ result.op = "addMonitor"
    /\ result.exc = None
    /\ result.ret = MonitorName("force", 1)
    /\ Len(xmlTree.monitors["force"]) >= 2
    /\ xmlTree.monitors["force"][1] = MonitorName("force", 2)

(***************************************************************************)
(* Claims about reading whole lines (SpecRead).                            *)
(***************************************************************************)
RECURSIVE Concatenation(_)
Concatenation(lines) ==
    IF lines = <<>> THEN <<>> ELSE Head(lines) \o Concatenation(Tail(lines))

\* the text up to and with its last newline
UpToLastNewline(text) ==
    LET newlines == {k \in 1..Len(text) : text[k] = Newline}
    IN  IF newlines = {} THEN <<>>
        ELSE SubSeq(text, 1, CHOOSE k \in newlines : \A j \in newlines : j <= k)

\* one line: it ends in a newline and holds no other
WholeLine(line) ==
    /\ EndsWithNewline(line)
    /\ \A k \in 1..(Len(line) - 1) : line[k] # Newline

\* C29: over any interleaving of readCompleteLineOnly calls with appends to the
\* file, every non-empty result is a whole line ending in a newline, and the
\* concatenation of all results is the content read so far up to its last
\* newline: no character is lost or duplicated when a line arrives in fragments,
\* and once the reader is at the end of the file the results are the file up to
\* its last newline.
C29_CompleteLines ==
    /\ \A i \in 1..Len(reader.results) : WholeLine(reader.results[i])
    /\ Concatenation(reader.results)
           = UpToLastNewline(SubSeq(reader.content, 1, reader.pos))
    /\ Concatenation(reader.results) \o reader.incompleteLine
           = SubSeq(reader.content, 1, reader.pos)
    /\ reader.pos = Len(reader.content) =>
           Concatenation(reader.results) = UpToLastNewline(reader.content)

\* the call returned a line that readline delivered in several fragments
C29_Witness ==
    /\ reader.ret # <<>>
    /\ reader.ret # reader.line
    /\ Len(reader.results) >= 1
    /\ reader.results[Len(reader.results)] = reader.ret

(***************************************************************************)
(* Claims about the residual collection (SpecSolver).                      *)
(***************************************************************************)
\* stopRun ran to its end: the timer is stopped, the files are closed, running is
\* false
StopRunCompleted ==
    /\ worker.stopRun = "done"
    /\ worker.timer = "stopped"
    /\ ~worker.running
    /\ \A r \in Regions : worker.changingFiles[r] = "closed"

\* C28: whenever stopCollecting is called while collecting, the worker's stopRun
\* eventually runs to completion, in every interleaving of the queued stop with
\* thread.quit() and at every stage of the collection.
C28_StopRunCompletes == worker.stopRequested ~> StopRunCompleted

(***************************************************************************)
(* Claims about the selection modes (SpecSync).                            *)
(***************************************************************************)
\* the step is a call of op
SyncCall(op) == geometry'.out.op = op /\ geometry' # geometry

\* C30: a selection pushed to the display is not re-emitted as
\* selectedActorsChanged while the mode is SYNCING_TO_DISPLAY; a change that came
\* from the display is not pushed back by selectActors while the mode is
\* SYNCING_FROM_DISPLAY; the mode is one of None and the two modes; each clear
\* operation returns the mode to None when called in its own mode and raises
\* RuntimeError, leaving the mode, otherwise.
C30_EchoSuppression ==
    [][/\ geometry'.syncingMode \in {None, SYNCING_FROM_DISPLAY, SYNCING_TO_DISPLAY}
       /\ (SyncCall("_selectedActorsChanged") /\ geometry.syncingMode = SYNCING_TO_DISPLAY) =>
              /\ ~geometry'.out.emitted
              /\ geometry'.listener = geometry.listener
              /\ geometry'.syncingMode = SYNCING_TO_DISPLAY
       /\ (SyncCall("selectActors") /\ geometry.syncingMode = SYNCING_FROM_DISPLAY) =>
              /\ ~geometry'.out.pushed
              /\ geometry'.display = geometry.display
              /\ geometry'.syncingMode = SYNCING_FROM_DISPLAY
       /\ SyncCall("clearSyncingFromDisplay") =>
              IF geometry.syncingMode = SYNCING_FROM_DISPLAY
              THEN geometry'.syncingMode = None /\ geometry'.out.exc = None
              ELSE geometry'.syncingMode = geometry.syncingMode
                   /\ geometry'.out.exc = "RuntimeError"
       /\ SyncCall("_clearSyncingToDisplay") =>
              IF geometry.syncingMode = SYNCING_TO_DISPLAY
              THEN geometry'.syncingMode = None /\ geometry'.out.exc = None
              ELSE geometry'.syncingMode = geometry.syncingMode
                   /\ geometry'.out.exc = "RuntimeError"]_vars

\* the display reported the selection that selectActors pushed, and nothing was
\* emitted to the listeners, whose selection differs
C30_Witness ==
    /\ geometry.out.op = "_selectedActorsChanged"
    /\ ~geometry.out.emitted
    /\ geometry.syncingMode = SYNCING_TO_DISPLAY
    /\ geometry.display # geometry.listener

====
